---- MODULE Spec2Model ----
(***************************************************************************)
(* Model of the remote session establishment pipeline and of the UDP       *)
(* transport bridge of vscode-remote-mosh.                                 *)
(*                                                                         *)
(*   MoshRemoteAuthorityResolver  (resolve, _createSshClient,              *)
(*                                 _startMoshServer, _disposeAll)          *)
(*   MoshSession                  (makeConnection, dispose)                *)
(*   MoshClientWrapper            (connect, send, end, _onUdpMessage,      *)
(*                                 _onSocketError, _onSocketClose,         *)
(*                                 _startTickTimer, _cleanup)              *)
(*   setupVsCodeServer            (detect -> check -> install -> start)    *)
(*                                                                         *)
(* The program is single threaded: every action below is one macrotask of  *)
(* the event loop (an API call or an event handler) together with all the  *)
(* promise continuations it releases.                                      *)
(***************************************************************************)
EXTENDS Integers, Sequences, FiniteSets, TLC

\* ------------------------------------------------------------------------
\* Bounds of the model
\* ------------------------------------------------------------------------
MaxCalls == 2        \* resolve() invocations (each creates at most one MoshSession)
MaxBridges == 2      \* MoshClientWrapper instances created through makeConnection()
MaxEvents == 3       \* events the directly built wrapper emits because of the network
MaxSessEvents == 1   \* events a session's wrapper emits because of the network
MaxSent == 2         \* datagrams handed to the UDP socket
MaxEndCalls == 2     \* end() calls of its holder on the directly built wrapper
MaxSessEndCalls == 1 \* end() calls of its holder on a session's wrapper
MaxCodecErrs == 2    \* codec exceptions swallowed by one wrapper
MaxAttempt == 1      \* largest context.resolveAttempt
MaxLateOps == 2      \* send() calls and datagrams that reach a torn-down wrapper
MaxChunks == 3       \* chunks a remote command writes to stdout and stderr
MaxSegs == 3         \* segments (lines, fragments of lines) of a text given to parseMoshConnect
MaxPortSegs == 2     \* segments of a text given to parseVsCodeServerPort
MaxOutput == 3       \* chunks of output a discovery operation receives
MaxProbeToks == 3    \* tokens of the stdout of a bootstrap helper's command
MaxProbeCalls == 2   \* calls of the bootstrap helpers, one after the other
MaxAuthToks == 5     \* pieces of an authority string after its prefix
MaxDisposeCalls == 2 \* dispose() calls on one MoshSession

\* ------------------------------------------------------------------------
\* Input domains
\* ------------------------------------------------------------------------
Authorities == {"mosh+u@h1", "mosh+h2:2222"}
\* what parseMoshConnect can hand to resolve()
HandshakeResults ==
    { [udpPort |-> 60001, key |-> "4NeCCgvZFe2RnPgrcU1PQw=="],
      [udpPort |-> 60002, key |-> "AAAAAAAAAAAAAAAAAAAAAA=="] }
NoHandshake == [udpPort |-> 0, key |-> ""]
\* what startVsCodeServer can hand to setupVsCodeServer
AgentInfos == { [port |-> 39423, connectionToken |-> "tok"] }
NoAgent == [port |-> 0, connectionToken |-> ""]
SocketErrors == {"ECONNREFUSED", "EMSGSIZE"}
Payloads == {"p1", "p2"}
CodecThrow == "throw"
\* results of IMoshWasmClient.recvUdpPacket: an exception, no bytes, or bytes
InboundResults == {CodecThrow, ""} \cup Payloads
\* results of IMoshWasmClient.sendData / tick: an exception or a list of datagrams
OutboundResults == {<<CodecThrow>>, <<>>, <<"d1">>, <<"d1", "d2">>}
TickResults == {<<CodecThrow>>, <<>>, <<"hb">>}

CallIds == 1..MaxCalls
\* wrapper 0 is the one built by a direct MoshClientWrapper.connect() call,
\* wrappers 1..MaxBridges are built by MoshSession.makeConnection()
BridgeIds == 0..MaxBridges

VARIABLES
    sessions,   \* MoshRemoteAuthorityResolver._sessions: authority -> session id (0: no entry)
    sess,       \* the MoshSession objects, indexed by the resolve() call that constructed them
    calls,      \* the resolve() invocations and their local variables
    bridges,    \* the MoshClientWrapper objects
    commit,     \* getVsCodeCommit() is non-empty (process.env.VSCODE_COMMIT is set)
    exec,       \* one execRemote() invocation: its closure variables and its promise
    parse,      \* one application of parseMoshConnect / parseVsCodeServerPort
    disc,       \* one streaming discovery: _startMoshServer or startVsCodeServer
    probe,      \* the calls of detectArchitecture / checkVsCodeServerInstalled / installVsCodeServer
    conn        \* one _createSshClient() call: what it finds on the machine and the sshConfig it builds

\* the state of the helper operations that are modelled on their own
\* the helper state added for the control channel's configuration
more == <<conn>>

aux == <<exec, parse, disc, probe, more>>

vars == <<sessions, sess, calls, bridges, commit, aux>>

\* ------------------------------------------------------------------------
\* Objects before construction
\* ------------------------------------------------------------------------
NoSession ==
    [made |-> FALSE, auth |-> "", udpPort |-> 0, keyBase64 |-> "",
     vsCodeServerInfo |-> NoAgent, disposed |-> FALSE, client |-> 0,
     disposeCalls |-> 0]

NoCall ==
    [pc |-> "idle", auth |-> "", attempt |-> 0, existing |-> 0,
     moshInfo |-> NoHandshake, checkErr |-> FALSE, ssh |-> "none", err |-> "none",
     finalSession |-> 0, factoryErr |-> "none"]

NoBridge ==
    [st |-> "none", owner |-> 0, closed |-> FALSE, tickTimer |-> FALSE,
     sockCloses |-> 0, frees |-> 0, endCalls |-> 0, codecErrs |-> 0,
     events |-> <<>>, sent |-> <<>>, lateOps |-> 0, lateCalls |-> 0]

\* a promise nobody has settled, and the closure of an execRemote() call
\* that has not been made
PendingPromise == [state |-> "pending", value |-> [kind |-> "none"]]

NoExec ==
    [pc |-> "idle", stdout |-> <<>>, stderr |-> <<>>, done |-> FALSE,
     timer |-> FALSE, promise |-> PendingPromise,
     code |-> "", first |-> "none", arrived |-> <<>>, command |-> ""]

\* no parser has been applied
NoParse == [fn |-> "none", text |-> <<>>, pc |-> "input", result |-> NoHandshake]

\* the closure of a discovery operation that has not been started
NoDisc ==
    [kind |-> "none", pc |-> "idle", output |-> <<>>, resolved |-> FALSE,
     timer |-> FALSE, promise |-> PendingPromise, connectionToken |-> "",
     code |-> "", successes |-> 0, chunks |-> 0, errChunks |-> 0,
     levelNum |-> 2, log |-> {}]

\* no call of a bootstrap helper has been made
NoProbe ==
    [fn |-> "none", pc |-> "idle", out |-> PendingPromise, result |-> "",
     threw |-> FALSE, warned |-> FALSE, past |-> <<>>]

\* _createSshClient has not been called
NoConn ==
    [pc |-> "idle", identityFile |-> "", files |-> <<>>, agentSock |-> "",
     privateKey |-> "", agent |-> "", connects |-> 0]

Init ==
    /\ exec = NoExec
    /\ parse = NoParse
    /\ disc = NoDisc
    /\ probe = NoProbe
    /\ conn = NoConn
    /\ sessions = [a \in Authorities |-> 0]
    /\ sess = [s \in CallIds |-> NoSession]
    /\ calls = [c \in CallIds |-> NoCall]
    /\ bridges = [b \in BridgeIds |-> NoBridge]
    /\ commit \in BOOLEAN

\* ------------------------------------------------------------------------
\* MoshClientWrapper: operations on one wrapper object
\* ------------------------------------------------------------------------

\* the teardown has been performed: flag set, interval cleared, socket closed, codec freed
Torn(br) == br.closed /\ ~br.tickTimer /\ br.sockCloses >= 1 /\ br.frees >= 1

\* EventEmitter.emit(type, arg).  op/inp/wasOpen record which handler emitted
\* the event, with what input, and whether the wrapper was open when the
\* handler started; torn records whether the teardown was complete at the
\* moment of emission; errsAt the codec errors swallowed so far.
Emit(br, type, arg, op, inp, wasOpen) ==
    [br EXCEPT !.events = Append(@,
        [type |-> type, arg |-> arg, op |-> op, inp |-> inp,
         wasOpen |-> wasOpen, torn |-> Torn(br), errsAt |-> br.codecErrs])]

\* _cleanup without its `if (this._closed) return` guard
CleanupNoGuard(br) ==
    [br EXCEPT !.closed = TRUE,
               !.tickTimer = FALSE,
               !.sockCloses = @ + 1,
               !.frees = @ + 1]

\* MoshClientWrapper._cleanup
Cleanup(br) ==
    IF br.closed
    THEN br
    ELSE [br EXCEPT !.closed = TRUE,
                    !.tickTimer = FALSE,
                    !.sockCloses = @ + 1,
                    !.frees = @ + 1]

\* MoshClientWrapper.end
EndWrapper(br) ==
    IF br.closed
    THEN br
    ELSE Emit(Cleanup(br), "end", "", "end", "", ~br.closed)

\* _onSocketError emitting 'close' before it cleans up
OnSocketErrorEmitFirst(br, e) ==
    Cleanup(Emit(br, "close", e, "error", e, ~br.closed))

\* MoshClientWrapper._onSocketError
OnSocketError(br, e) ==
    Emit(Cleanup(br), "close", e, "error", e, ~br.closed)

\* MoshClientWrapper._onSocketClose
OnSocketClose(br) ==
    IF ~br.closed
    THEN Emit(Cleanup(br), "close", "", "sockclose", "", ~br.closed)
    ELSE br

\* a call of a method of this._wasm (sendData, recvUdpPacket, tick);
\* lateCalls counts the calls made on a handle that free() has released
InvokeCodec(br) == [br EXCEPT !.lateCalls = IF br.frees > 0 THEN @ + 1 ELSE @]

\* a handler (send, _onUdpMessage, the tick) returning at its
\* `if (this._closed)` guard; lateOps counts these runs
Late(br) == [br EXCEPT !.lateOps = @ + 1]

\* send() without its `if (this._closed) return` guard
SendWrapperNoGuard(br, res) ==
    IF res = <<CodecThrow>>
    THEN [InvokeCodec(br) EXCEPT !.codecErrs = @ + 1]
    ELSE [InvokeCodec(br) EXCEPT !.sent = @ \o res]

\* MoshClientWrapper._sendUdpPacket, once per datagram of pkts, in order
SendUdpPackets(br, pkts) == [br EXCEPT !.sent = @ \o pkts]

\* MoshClientWrapper.send with the codec's sendData returning res
SendWrapper(br, res) ==
    IF br.closed
    THEN Late(br)
    ELSE IF res = <<CodecThrow>>
         THEN [InvokeCodec(br) EXCEPT !.codecErrs = @ + 1]
         ELSE SendUdpPackets(InvokeCodec(br), res)

\* _onUdpMessage without the `data.length > 0` test
OnUdpMessageEmitEmpty(br, res) ==
    IF br.closed
    THEN Late(br)
    ELSE IF res = CodecThrow
         THEN [InvokeCodec(br) EXCEPT !.codecErrs = @ + 1]
         ELSE Emit(InvokeCodec(br), "data", res, "message", res, TRUE)

\* _onUdpMessage treating a codec exception as a connection failure
OnUdpMessageFatal(br, res) ==
    IF br.closed
    THEN Late(br)
    ELSE IF res = CodecThrow
         THEN Emit(Cleanup([br EXCEPT !.codecErrs = @ + 1]), "close", res, "message", res, TRUE)
         ELSE IF res # ""
              THEN Emit(br, "data", res, "message", res, TRUE)
              ELSE br

\* MoshClientWrapper._onUdpMessage with the codec's recvUdpPacket returning res
OnUdpMessage(br, res) ==
    IF br.closed
    THEN Late(br)
    ELSE IF res = CodecThrow
         THEN [InvokeCodec(br) EXCEPT !.codecErrs = @ + 1]
         ELSE IF res # ""
              THEN Emit(InvokeCodec(br), "data", res, "message", res, TRUE)
              ELSE InvokeCodec(br)

\* the setInterval callback of MoshClientWrapper._startTickTimer
OnTick(br, res) ==
    IF br.closed
    THEN [br EXCEPT !.tickTimer = FALSE]
    ELSE IF res = <<CodecThrow>>
         THEN [InvokeCodec(br) EXCEPT !.codecErrs = @ + 1]
         ELSE SendUdpPackets(InvokeCodec(br), res)


\* a call to end() from outside the wrapper (endCalls counts the calls)
CallEnd(br) == [EndWrapper(br) EXCEPT !.endCalls = @ + 1]

\* the first wrapper of a pool that has not been constructed yet
FreeBridge(pool) ==
    IF \E b \in pool : bridges[b].st = "none"
    THEN CHOOSE b \in pool : bridges[b].st = "none" /\ \A x \in pool : bridges[x].st = "none" => b <= x
    ELSE 0

\* the number of events the network may make wrapper b emit, the number of
\* end() calls its holder may make, and the socket errors it may see
EventBudget(b) == IF b = 0 THEN MaxEvents ELSE MaxSessEvents
EndBudget(b) == IF b = 0 THEN MaxEndCalls ELSE MaxSessEndCalls
ErrorsOf(b) == IF b = 0 THEN SocketErrors ELSE {"ECONNREFUSED"}

\* MoshClientWrapper.connect up to `await new Promise(... socket.bind ...)`:
\* the codec handle, the socket and the wrapper exist, the handlers are
\* registered, the tick timer is not started yet.
ConnectStart(b, owner) ==
    bridges' = [bridges EXCEPT ![b] = [NoBridge EXCEPT !.st = "connecting", !.owner = owner]]

\* the bind and connect callbacks ran: connect() starts the tick timer and
\* returns the wrapper; MoshSession.makeConnection (when it is the caller)
\* stores it in _client and wraps it in a MoshMessagePassing.
ConnectOk(b) ==
    /\ bridges[b].st = "connecting"
    /\ bridges' = [bridges EXCEPT ![b] = [@ EXCEPT !.st = "live", !.tickTimer = TRUE]]
    /\ sess' = IF bridges[b].owner # 0
               THEN [sess EXCEPT ![bridges[b].owner].client = b]
               ELSE sess
    /\ UNCHANGED <<sessions, calls, commit, aux>>

\* a socket 'error' event during bind/connect: _onSocketError runs (registered
\* first), then the once('error', reject) listener rejects connect()
ConnectSocketError(b, e) ==
    /\ bridges[b].st = "connecting"
    /\ e \in ErrorsOf(b)
    /\ bridges' = [bridges EXCEPT ![b] = [OnSocketError(@, e) EXCEPT !.st = "failed"]]
    /\ UNCHANGED <<sessions, sess, calls, commit, aux>>

\* socket.connect() throws inside the bind callback: catch (err) { reject(err) }
ConnectThrow(b) ==
    /\ bridges[b].st = "connecting"
    /\ bridges' = [bridges EXCEPT ![b].st = "failed"]
    /\ UNCHANGED <<sessions, sess, calls, commit, aux>>

\* MoshClientWrapper.connect called directly with connection options
Connect ==
    /\ bridges[0].st = "none"
    /\ ConnectStart(0, 0)
    /\ UNCHANGED <<sessions, sess, calls, commit, aux>>

\* the holder of a live wrapper calls end() (MoshMessagePassing.end)
End(b) ==
    /\ bridges[b].st = "live"
    /\ bridges[b].endCalls < EndBudget(b)
    /\ bridges' = [bridges EXCEPT ![b] = CallEnd(@)]
    /\ UNCHANGED <<sessions, sess, calls, commit, aux>>

\* a socket 'error' event after construction
SocketError(b, e) ==
    /\ bridges[b].st \in {"live", "failed"}
    /\ e \in ErrorsOf(b)
    /\ Len(bridges[b].events) < EventBudget(b)
    /\ bridges' = [bridges EXCEPT ![b] = OnSocketError(@, e)]
    /\ UNCHANGED <<sessions, sess, calls, commit, aux>>

\* a socket 'close' event after construction
SocketClose(b) ==
    /\ bridges[b].st \in {"live", "failed"}
    /\ bridges' = [bridges EXCEPT ![b] = OnSocketClose(@)]
    /\ UNCHANGED <<sessions, sess, calls, commit, aux>>

\* the holder of a live wrapper calls send(data); the codec returns res
Send(b, res) ==
    /\ bridges[b].st = "live"
    /\ res = <<CodecThrow>> => bridges[b].codecErrs < MaxCodecErrs
    /\ res # <<CodecThrow>> => Len(bridges[b].sent) + Len(res) <= MaxSent
    /\ bridges[b].closed => bridges[b].lateOps < MaxLateOps
    /\ bridges' = [bridges EXCEPT ![b] = SendWrapper(@, res)]
    /\ UNCHANGED <<sessions, sess, calls, commit, aux>>

\* a socket 'message' event; the codec returns res
UdpMessage(b, res) ==
    /\ bridges[b].st = "live"
    /\ res = CodecThrow => bridges[b].codecErrs < MaxCodecErrs
    /\ Len(bridges[b].events) < EventBudget(b)
    /\ bridges[b].closed => bridges[b].lateOps < MaxLateOps
    /\ bridges' = [bridges EXCEPT ![b] = OnUdpMessage(@, res)]
    /\ UNCHANGED <<sessions, sess, calls, commit, aux>>

\* the 50 ms interval fires; the codec's tick returns res
Tick(b, res) ==
    /\ bridges[b].tickTimer
    /\ res = <<CodecThrow>> => bridges[b].codecErrs < MaxCodecErrs
    /\ res # <<CodecThrow>> => Len(bridges[b].sent) + Len(res) <= MaxSent
    /\ bridges' = [bridges EXCEPT ![b] = OnTick(@, res)]
    /\ UNCHANGED <<sessions, sess, calls, commit, aux>>

NextBridge ==
    \/ Connect
    \/ \E b \in BridgeIds : ConnectOk(b)
    \/ \E b \in BridgeIds, e \in SocketErrors : ConnectSocketError(b, e)
    \/ \E b \in BridgeIds : ConnectThrow(b)
    \/ \E b \in BridgeIds : End(b)
    \/ \E b \in BridgeIds, e \in SocketErrors : SocketError(b, e)
    \/ \E b \in BridgeIds : SocketClose(b)
    \/ \E b \in BridgeIds, res \in OutboundResults : Send(b, res)
    \/ \E b \in BridgeIds, res \in InboundResults : UdpMessage(b, res)
    \/ \E b \in BridgeIds, res \in TickResults : Tick(b, res)

\* one or more wrappers driven by their holder, the socket and the timer
SpecBridge == Init /\ [][NextBridge]_vars


\* ------------------------------------------------------------------------
\* MoshSession
\* ------------------------------------------------------------------------

\* MoshSession.dispose applied to every session of S: the session objects after it
DisposedSess(S) ==
    [s \in CallIds |->
        IF s \in S
        THEN IF sess[s].disposed
             THEN [sess[s] EXCEPT !.disposeCalls = @ + 1]
             ELSE [sess[s] EXCEPT !.disposed = TRUE, !.client = 0, !.disposeCalls = @ + 1]
        ELSE sess[s]]

\* dispose() without the _disposed test
DisposedBridgesNoGuard(S) ==
    [b \in BridgeIds |->
        IF \E s \in S : bridges[b].owner = s /\ bridges[b].st = "live" /\ b # 0
        THEN CallEnd(bridges[b])
        ELSE bridges[b]]

\* MoshSession.dispose applied to every session of S: the wrappers after
\* `this._client?.end()`
DisposedBridges(S) ==
    [b \in BridgeIds |->
        IF \E s \in S : ~sess[s].disposed /\ sess[s].client = b /\ b # 0
        THEN CallEnd(bridges[b])
        ELSE bridges[b]]

\* makeConnection() without its `if (this._disposed) throw` guard
MakeConnectionNoGuard(c) ==
    LET s == calls[c].finalSession
        b == FreeBridge(1..MaxBridges) IN
    /\ calls[c].pc = "returned"
    /\ b # 0
    /\ ConnectStart(b, s)
    /\ UNCHANGED <<sessions, sess, calls, commit, aux>>

\* the message of the Error makeConnection() throws on a disposed session
DisposedError == "MoshSession has been disposed"

\* the connection factory `() => finalSession.makeConnection()` returned by
\* call c is invoked: MoshSession.makeConnection up to the await inside
\* MoshClientWrapper.connect.  On a disposed session it throws before it
\* builds anything; factoryErr keeps the error the factory's caller got.
MakeConnection(c) ==
    LET s == calls[c].finalSession
        b == FreeBridge(1..MaxBridges) IN
    /\ calls[c].pc = "returned"
    /\ IF sess[s].disposed
       THEN /\ calls' = [calls EXCEPT ![c].factoryErr = DisposedError]
            /\ UNCHANGED bridges
       ELSE /\ b # 0
            /\ ConnectStart(b, s)
            /\ UNCHANGED calls
    /\ UNCHANGED <<sessions, sess, commit, aux>>

\* ------------------------------------------------------------------------
\* MoshRemoteAuthorityResolver
\* ------------------------------------------------------------------------

\* the resolve() invocations are numbered in the order they are made
FreeCall ==
    IF \E c \in CallIds : calls[c].pc = "idle"
    THEN CHOOSE c \in CallIds : calls[c].pc = "idle" /\ \A x \in CallIds : calls[x].pc = "idle" => c <= x
    ELSE 0

\* ResolveStart with the old session deleted from the registry but not disposed
ResolveStartNoDispose(c, a, n) ==
    LET existing == IF n > 0 THEN sessions[a] ELSE 0 IN
    /\ c = FreeCall
    /\ sessions' = IF existing # 0 THEN [sessions EXCEPT ![a] = 0] ELSE sessions
    /\ calls' = [calls EXCEPT ![c] =
                    [NoCall EXCEPT !.pc = "ssh", !.auth = a, !.attempt = n,
                                   !.existing = existing, !.ssh = "connecting"]]
    /\ UNCHANGED <<sess, bridges, commit, aux>>

\* resolve(authority, {resolveAttempt: n}) up to ssh.connect(): on a reconnect
\* the existing session of the authority is disposed and deleted, then
\* _createSshClient starts connecting.
ResolveStart(c, a, n) ==
    LET existing == IF n > 0 THEN sessions[a] ELSE 0
        S == IF existing # 0 THEN {existing} ELSE {} IN
    /\ c = FreeCall
    /\ sess' = DisposedSess(S)
    /\ bridges' = DisposedBridges(S)
    /\ sessions' = IF existing # 0 THEN [sessions EXCEPT ![a] = 0] ELSE sessions
    /\ calls' = [calls EXCEPT ![c] =
                    [NoCall EXCEPT !.pc = "ssh", !.auth = a, !.attempt = n,
                                   !.existing = existing, !.ssh = "connecting"]]
    /\ UNCHANGED <<commit, aux>>

\* ssh 'ready': _createSshClient resolves, _startMoshServer issues the
\* mosh-server command on the channel
SshReady(c) ==
    /\ calls[c].pc = "ssh"
    /\ calls' = [calls EXCEPT ![c].pc = "handshake", ![c].ssh = "ready"]
    /\ UNCHANGED <<sessions, sess, bridges, commit, aux>>

\* an exception leaves the withProgress task without the ssh client ended
RejectNoEnd(c) ==
    /\ calls' = [calls EXCEPT ![c] =
                    [NoCall EXCEPT !.pc = "failed", !.ssh = "ready", !.err = "Error"]]
    /\ UNCHANGED <<sessions, sess, bridges, commit, aux>>

\* an exception leaves the withProgress task: the awaited withProgress
\* rejects with it and resolve() rejects with that same Error (the locals
\* of the finished invocation are gone)
Reject(c) ==
    /\ calls' = [calls EXCEPT ![c] =
                    [NoCall EXCEPT !.pc = "failed", !.ssh = "ended", !.err = "Error"]]
    /\ UNCHANGED <<sessions, sess, bridges, commit, aux>>

\* ssh 'error', or 'close' before 'ready': cleanup() ends the client and rejects
SshFail(c) ==
    /\ calls[c].pc = "ssh"
    /\ Reject(c)

\* Step 4 with a registry that keeps the entry an authority already has
RegisterKeepExisting(c, info, agent) ==
    LET a == calls[c].auth
        reg == IF sessions[a] # 0 THEN sessions ELSE [sessions EXCEPT ![a] = c]
        final == reg[a] IN
    /\ sess' = [sess EXCEPT ![c] =
                  [made |-> TRUE, auth |-> a, udpPort |-> info.udpPort,
                   keyBase64 |-> info.key, vsCodeServerInfo |-> agent,
                   disposed |-> FALSE, client |-> 0, disposeCalls |-> 0]]
    /\ sessions' = reg
    /\ calls' = [calls EXCEPT ![c] =
                  [NoCall EXCEPT !.ssh = "ended",
                                 !.finalSession = final,
                                 !.pc = IF final = 0 THEN "failed" ELSE "returned",
                                 !.err = IF final = 0 THEN "TemporarilyNotAvailable" ELSE "none"]]
    /\ UNCHANGED <<bridges, commit, aux>>

\* Step 4 of resolve() and its tail: the MoshSession is constructed and
\* stored, the finally block ends the ssh client, the registry is read back
\* and the ManagedResolvedAuthority is returned (or TemporarilyNotAvailable
\* is thrown when the registry has no entry).  Of the invocation only its
\* outcome and the session captured by the returned factory remain.
Register(c, info, agent) ==
    LET a == calls[c].auth
        reg == [sessions EXCEPT ![a] = c]
        final == reg[a] IN
    /\ sess' = [sess EXCEPT ![c] =
                  [made |-> TRUE, auth |-> a, udpPort |-> info.udpPort,
                   keyBase64 |-> info.key, vsCodeServerInfo |-> agent,
                   disposed |-> FALSE, client |-> 0, disposeCalls |-> 0]]
    /\ sessions' = reg
    /\ calls' = [calls EXCEPT ![c] =
                  [NoCall EXCEPT !.ssh = "ended",
                                 !.finalSession = final,
                                 !.pc = IF final = 0 THEN "failed" ELSE "returned",
                                 !.err = IF final = 0 THEN "TemporarilyNotAvailable" ELSE "none"]]
    /\ UNCHANGED <<bridges, commit, aux>>

\* a mosh-server data chunk after which parseMoshConnect(output) = info:
\* _startMoshServer resolves; with a commit hash setupVsCodeServer starts
\* (detectArchitecture issues `uname -m`), without one Step 3 is skipped
HsMatch(c, info) ==
    /\ calls[c].pc = "handshake"
    /\ IF commit
       THEN /\ calls' = [calls EXCEPT ![c].pc = "detect", ![c].moshInfo = info]
            /\ UNCHANGED <<sessions, sess, bridges, commit, aux>>
       ELSE Register(c, info, NoAgent)

\* HsFail with resolve() going on to the bootstrap
HsFailContinue(c, cause) ==
    /\ calls[c].pc = "handshake"
    /\ calls' = [calls EXCEPT ![c].pc = "detect"]
    /\ UNCHANGED <<sessions, sess, bridges, commit, aux>>

\* _startMoshServer rejects: exec error, stream close before a match, 30 s timeout
HsFail(c, cause) ==
    /\ calls[c].pc = "handshake"
    /\ Reject(c)

\* detectArchitecture finished: on success checkVsCodeServerInstalled issues
\* its command; a failure of execRemote leaves setupVsCodeServer and is
\* caught by resolve()
DetectDone(c, ok) ==
    /\ calls[c].pc = "detect"
    /\ IF ok
       THEN /\ calls' = [calls EXCEPT ![c].pc = "check"]
            /\ UNCHANGED <<sessions, sess, bridges, commit, aux>>
       ELSE Register(c, calls[c].moshInfo, NoAgent)

\* checkVsCodeServerInstalled finished: res is the trimmed stdout of the
\* check command, or "failed" when execRemote threw (caught: not installed).
\* setupVsCodeServer installs when absent, else starts.  checkErr remembers
\* that the check itself failed.
CheckDone(c, res) ==
    LET isInstalled == (res = "exists") IN
    /\ calls[c].pc = "check"
    /\ calls' = [calls EXCEPT ![c].pc = IF isInstalled THEN "start" ELSE "install",
                              ![c].checkErr = (res = "failed")]
    /\ UNCHANGED <<sessions, sess, bridges, commit, aux>>

\* InstallDone with the failure of the install ignored
InstallDoneIgnored(c, ok) ==
    /\ calls[c].pc = "install"
    /\ calls' = [calls EXCEPT ![c].pc = "start"]
    /\ UNCHANGED <<sessions, sess, bridges, commit, aux>>

\* InstallDone with the bootstrap's failure leaving resolve()
InstallDoneFatal(c, ok) ==
    /\ calls[c].pc = "install"
    /\ IF ok
       THEN /\ calls' = [calls EXCEPT ![c].pc = "start"]
            /\ UNCHANGED <<sessions, sess, bridges, commit, aux>>
       ELSE Reject(c)

\* installVsCodeServer finished
InstallDone(c, ok) ==
    /\ calls[c].pc = "install"
    /\ IF ok
       THEN /\ calls' = [calls EXCEPT ![c].pc = "start"]
            /\ UNCHANGED <<sessions, sess, bridges, commit, aux>>
       ELSE Register(c, calls[c].moshInfo, NoAgent)

\* startVsCodeServer finished: with the agent's info, or with a failure
\* (agent = NoAgent) that resolve() catches
StartDone(c, agent) ==
    /\ calls[c].pc = "start"
    /\ Register(c, calls[c].moshInfo, agent)

\* _disposeAll without `this._sessions.clear()`
DisposeAllNoClear ==
    LET S == {sessions[a] : a \in Authorities} \ {0} IN
    /\ sess' = DisposedSess(S)
    /\ bridges' = DisposedBridges(S)
    /\ UNCHANGED <<sessions, calls, commit, aux>>

\* MoshRemoteAuthorityResolver._disposeAll
DisposeAll ==
    LET S == {sessions[a] : a \in Authorities} \ {0} IN
    /\ sess' = DisposedSess(S)
    /\ bridges' = DisposedBridges(S)
    /\ sessions' = [a \in Authorities |-> 0]
    /\ UNCHANGED <<calls, commit, aux>>

\* the factory of call c invoked while its session is not disposed.  (An
\* invocation on a disposed session changes nothing but factoryErr; those
\* invocations are explored under SpecFactory.)
MakeConnectionLive(c) ==
    /\ calls[c].pc = "returned"
    /\ ~sess[calls[c].finalSession].disposed
    /\ MakeConnection(c)

HandshakeFailures == {"exec", "exit", "timeout"}
CheckResults == {"exists", "missing", "failed"}

Next ==
    \/ \E c \in CallIds, a \in Authorities, n \in 0..MaxAttempt : ResolveStart(c, a, n)
    \/ \E c \in CallIds : SshReady(c)
    \/ \E c \in CallIds : SshFail(c)
    \/ \E c \in CallIds, info \in HandshakeResults : HsMatch(c, info)
    \/ \E c \in CallIds, cause \in HandshakeFailures : HsFail(c, cause)
    \/ \E c \in CallIds, ok \in BOOLEAN : DetectDone(c, ok)
    \/ \E c \in CallIds, res \in CheckResults : CheckDone(c, res)
    \/ \E c \in CallIds, ok \in BOOLEAN : InstallDone(c, ok)
    \/ \E c \in CallIds, agent \in AgentInfos \cup {NoAgent} : StartDone(c, agent)
    \/ DisposeAll
    \/ \E c \in CallIds : MakeConnectionLive(c)
    \/ \E b \in BridgeIds : ConnectOk(b)
    \/ \E b \in BridgeIds, e \in SocketErrors : ConnectSocketError(b, e)
    \/ \E b \in BridgeIds : ConnectThrow(b)
    \/ \E b \in BridgeIds : End(b)
    \/ \E b \in BridgeIds, e \in SocketErrors : SocketError(b, e)
    \/ \E b \in BridgeIds : SocketClose(b)

\* the resolver, its sessions and their wrappers
Spec == Init /\ [][Next]_vars


\* ------------------------------------------------------------------------
\* Properties of the resolver (checked under Spec)
\* ------------------------------------------------------------------------
BootPcs == {"detect", "check", "install", "start"}
InFlightPcs == {"ssh", "handshake"} \cup BootPcs

\* call c ends in this step, out of the bootstrap
LeavesBootstrap(c) ==
    /\ calls[c].pc \in BootPcs
    /\ calls'[c].pc \in {"returned", "failed"}

\* this step ends call c successfully with a registered session that carries
\* the handshake result the call held
SessionFromHandshake(c) ==
    /\ calls'[c].pc = "returned"
    /\ calls'[c].err = "none"
    /\ calls'[c].finalSession = c
    /\ calls'[c].ssh = "ended"
    /\ sessions'[calls[c].auth] = c
    /\ sess'[c].made
    /\ ~sess'[c].disposed
    /\ sess'[c].auth = calls[c].auth
    /\ sess'[c].udpPort = calls[c].moshInfo.udpPort
    /\ sess'[c].keyBase64 = calls[c].moshInfo.key

\* a step in which architecture detection, the install or the agent start fails
BootstrapThrows(c) ==
    \/ DetectDone(c, FALSE)
    \/ InstallDone(c, FALSE)
    \/ StartDone(c, NoAgent)

\* C1 (as stated): whenever a part of the agent bootstrap has failed -
\* architecture detection, the install check, the install or the agent start -
\* resolve succeeds with a session that carries the handshake's port and key
\* and no agent info.
C1_AnyBootstrapPartFailureGivesNoAgent ==
    [][\A c \in CallIds :
          (BootstrapThrows(c) \/ (calls[c].checkErr /\ LeavesBootstrap(c)))
              => (SessionFromHandshake(c) /\ sess'[c].vsCodeServerInfo = NoAgent)]_vars

\* C1 (amended): a failure of architecture detection, of the install or of
\* the agent start is absorbed: resolve succeeds and registers a session with
\* the handshake's port and key and no agent info.  A failed install check
\* alone only means "not installed": resolve succeeds with the handshake's
\* port and key as well, with agent info when install and start then succeed.
C1_BootstrapFailureNonFatal ==
    [][\A c \in CallIds :
          /\ BootstrapThrows(c)
                => (SessionFromHandshake(c) /\ sess'[c].vsCodeServerInfo = NoAgent)
          /\ (calls[c].checkErr /\ LeavesBootstrap(c)) => SessionFromHandshake(c)]_vars

\* C1 witness: with a commit hash set, a call has returned and its session
\* has no agent info (the bootstrap ran and failed)
C1_Witness ==
    \E c \in CallIds :
        /\ commit
        /\ calls[c].pc = "returned"
        /\ sessions[sess[c].auth] = c
        /\ sess[c].udpPort = 60002
        /\ sess[c].vsCodeServerInfo = NoAgent

\* C2: a resolve with attempt > 0 for an authority that has a session
\* disposes that session (ending its wrapper) and removes it from the
\* registry in the step that starts the call, before the ssh client
\* connects; while the call connects, runs the handshake and bootstraps, the
\* old session stays disposed and out of the registry.
C2_ReconnectDisposesFirst ==
    [][\A c \in CallIds :
          /\ (/\ calls[c].pc = "idle"
              /\ calls'[c].pc # "idle"
              /\ calls'[c].attempt > 0
              /\ sessions[calls'[c].auth] # 0)
                => LET s == sessions[calls'[c].auth]
                       b == sess[s].client IN
                   /\ calls'[c].existing = s
                   /\ calls'[c].pc = "ssh"
                   /\ sess'[s].disposed
                   /\ sess'[s].client = 0
                   /\ \A a \in Authorities : sessions'[a] # s
                   /\ b # 0 => (bridges'[b].closed /\ ~bridges'[b].tickTimer
                                  /\ bridges'[b].sockCloses = 1 /\ bridges'[b].frees = 1)
          /\ (calls'[c].pc \in InFlightPcs /\ calls'[c].existing # 0)
                => /\ sess'[calls'[c].existing].disposed
                   /\ \A a \in Authorities : sessions'[a] # calls'[c].existing]_vars

\* C2 witness: a reconnect is running its handshake; the session it found
\* is disposed and its wrapper has emitted its end event
C2_Witness ==
    \E c \in CallIds, b \in BridgeIds :
        /\ calls[c].pc = "handshake"
        /\ calls[c].attempt > 0
        /\ calls[c].existing # 0
        /\ sess[calls[c].existing].disposed
        /\ bridges[b].owner = calls[c].existing
        /\ bridges[b].st = "live"
        /\ bridges[b].endCalls = 1
        /\ Len(bridges[b].events) = 1
        /\ bridges[b].events[1].type = "end"

\* C3 (as stated): every session ever created is the registry's entry for
\* its authority or has been disposed.
C3_OneLiveSessionPerAuthority ==
    \A s \in CallIds :
        sess[s].made => (sessions[sess[s].auth] = s \/ sess[s].disposed)

\* a session's wrapper is alive: built, and not torn down
Alive(b) == bridges[b].st = "live" /\ ~bridges[b].closed

\* C4 (as stated): at most one wrapper of a session is alive at any time,
\* and when makeConnection builds a new wrapper for a session, no wrapper
\* that the session built earlier is alive any more.
C4_OneAliveBridgePerSession ==
    [][\A s \in CallIds :
          /\ Cardinality({b \in BridgeIds : bridges'[b].owner = s /\ Alive(b)'}) <= 1
          /\ \A b \in BridgeIds :
                (bridges[b].st = "none" /\ bridges'[b].st # "none" /\ bridges'[b].owner = s)
                    => \A x \in BridgeIds \ {b} : bridges[x].owner = s => ~Alive(x)']_vars

\* C5 (as stated): a resolve that fails has failed with the resolver's
\* TemporarilyNotAvailable error and has registered no session.
C5_FailureIsTemporarilyNotAvailable ==
    \A c \in CallIds :
        calls[c].pc = "failed"
            => (calls[c].err = "TemporarilyNotAvailable" /\ ~sess[c].made)


\* ------------------------------------------------------------------------
\* Properties of one wrapper (checked under SpecBridge)
\* ------------------------------------------------------------------------
EventsOf(b, types) ==
    {i \in 1..Len(bridges[b].events) : bridges[b].events[i].type \in types}

\* C6: under any sequence of end() calls, socket errors and socket closures
\* the socket is closed at most once and the codec freed at most once, a
\* torn-down wrapper has no tick timer, at most one end event exists and it
\* was emitted by an end() that found the wrapper open; an end() on a
\* torn-down wrapper changes nothing (but the count of calls) and emits nothing.
C6_EndIdempotent ==
    [][\A b \in BridgeIds :
          /\ bridges'[b].sockCloses <= 1
          /\ bridges'[b].frees <= 1
          /\ bridges'[b].closed => (~bridges'[b].tickTimer /\ bridges'[b].sockCloses = 1
                                      /\ bridges'[b].frees = 1)
          /\ Cardinality(EventsOf(b, {"end"})') <= 1
          /\ \A i \in EventsOf(b, {"end"})' :
                bridges'[b].events[i].op = "end" /\ bridges'[b].events[i].wasOpen
          /\ (bridges[b].closed /\ bridges'[b].endCalls > bridges[b].endCalls)
                => bridges'[b] = [bridges[b] EXCEPT !.endCalls = @ + 1]
          /\ (~bridges[b].closed /\ bridges'[b].endCalls > bridges[b].endCalls)
                => /\ bridges'[b].closed
                   /\ bridges'[b].events = Append(bridges[b].events,
                          [type |-> "end", arg |-> "", op |-> "end", inp |-> "",
                           wasOpen |-> TRUE, torn |-> TRUE,
                           errsAt |-> bridges[b].codecErrs])]_vars

\* C6 witness: end() was called twice and a socket error followed; one end
\* event, one socket close, one codec free
C6_Witness ==
    /\ bridges[0].endCalls = 2
    /\ Len(bridges[0].events) = 2
    /\ bridges[0].events[1].type = "end"
    /\ bridges[0].events[2].op = "error"
    /\ bridges[0].sockCloses = 1
    /\ bridges[0].frees = 1

\* C7 (as stated): a wrapper whose construction failed or that was torn
\* down has its socket closed and its codec freed, and the two are always
\* released together.
C7_ReleasedOnEveryExitPath ==
    \A b \in BridgeIds :
        /\ bridges[b].sockCloses = bridges[b].frees
        /\ (bridges[b].st = "failed" \/ bridges[b].closed)
              => (bridges[b].sockCloses >= 1 /\ bridges[b].frees >= 1)

\* C8: on an open wrapper end() emits exactly one event, an end event; a
\* socket error emits exactly one event, a close event carrying that error;
\* a socket closure emits exactly one event, a close event carrying no
\* error; each is emitted after the teardown is complete.
C8_TerminalEventPerCause ==
    [][\A b \in BridgeIds :
          /\ \A i \in 1..Len(bridges'[b].events) :
                LET e == bridges'[b].events[i] IN
                (e.wasOpen /\ e.op \in {"end", "error", "sockclose"})
                    => /\ e.torn
                       /\ e.op = "end" => (e.type = "end" /\ e.arg = "")
                       /\ e.op = "error" => (e.type = "close" /\ e.arg = e.inp
                                               /\ e.arg \in SocketErrors)
                       /\ e.op = "sockclose" => (e.type = "close" /\ e.arg = "")
          /\ (~bridges[b].closed /\ bridges'[b].closed)
                => /\ Len(bridges'[b].events) = Len(bridges[b].events) + 1
                   /\ SubSeq(bridges'[b].events, 1, Len(bridges[b].events)) = bridges[b].events
                   /\ bridges'[b].events[Len(bridges'[b].events)].wasOpen
                   /\ bridges'[b].events[Len(bridges'[b].events)].op
                         \in {"end", "error", "sockclose"}
                   /\ Torn(bridges'[b])]_vars

\* C8 witness: a live wrapper (it had received data) was closed by a socket
\* error and its close event carries that error
C8_Witness ==
    /\ bridges[0].st = "live"
    /\ Len(bridges[0].events) = 2
    /\ bridges[0].events[1].type = "data"
    /\ bridges[0].events[2].type = "close"
    /\ bridges[0].events[2].arg = "EMSGSIZE"
    /\ bridges[0].events[2].wasOpen

\* C9 (as stated): a wrapper that connect() handed out emits at most one
\* terminal event (end or close) in its lifetime.
C9_AtMostOneTerminalEvent ==
    \A b \in BridgeIds :
        bridges[b].st = "live" => Cardinality(EventsOf(b, {"end", "close"})) <= 1

\* C10: a codec exception in _onUdpMessage, send() or the tick leaves the
\* wrapper as it was (only the error is logged): it stays open with its
\* timer running, nothing is closed, freed, emitted or sent; and a live
\* wrapper that has emitted no terminal event is open and ticking, so that
\* what follows is still processed.
C10_CodecErrorSwallowed ==
    [][\A b \in BridgeIds :
          /\ bridges'[b].codecErrs > bridges[b].codecErrs
                => /\ bridges'[b] = [bridges[b] EXCEPT !.codecErrs = @ + 1]
                   /\ ~bridges'[b].closed
                   /\ bridges'[b].tickTimer
                   /\ bridges'[b].sockCloses = 0
                   /\ bridges'[b].frees = 0
          /\ (bridges'[b].st = "live" /\ EventsOf(b, {"end", "close"})' = {})
                => (~bridges'[b].closed /\ bridges'[b].tickTimer)]_vars

\* C10 witness: after two codec errors the wrapper is open, and it emitted
\* data and sent datagrams after the first of them
C10_Witness ==
    /\ bridges[0].codecErrs = 2
    /\ ~bridges[0].closed
    /\ bridges[0].tickTimer
    /\ bridges[0].sent # <<>>
    /\ \E i \in 1..Len(bridges[0].events) :
          bridges[0].events[i].type = "data" /\ bridges[0].events[i].errsAt >= 1

\* C11: once a wrapper is torn down, no step invokes the codec, hands a
\* datagram to the socket or emits a data event; a send() or a datagram
\* that reaches it returns at the guard and changes nothing; the teardown
\* has cancelled the timer, and a tick that still found the wrapper torn
\* down would only cancel the timer.
C11_NothingAfterTeardown ==
    [][\A b \in BridgeIds :
          /\ bridges'[b].lateCalls = 0
          /\ bridges'[b].closed => ~bridges'[b].tickTimer
          /\ bridges[b].closed
                => /\ bridges'[b].closed
                   /\ bridges'[b].sent = bridges[b].sent
                   /\ bridges'[b].codecErrs = bridges[b].codecErrs
                   /\ EventsOf(b, {"data"})' = EventsOf(b, {"data"})
                   /\ bridges'[b].frees = bridges[b].frees
                   /\ bridges'[b].lateOps > bridges[b].lateOps
                         => bridges'[b] = [bridges[b] EXCEPT !.lateOps = @ + 1]
                   /\ (bridges[b].tickTimer /\ ~bridges'[b].tickTimer)
                         => bridges'[b] = [bridges[b] EXCEPT !.tickTimer = FALSE]]_vars

\* C11 witness: a wrapper that had sent a datagram and emitted data was
\* ended, and two later send() calls or datagrams reached it
C11_Witness ==
    /\ bridges[0].closed
    /\ bridges[0].lateOps = 2
    /\ Len(bridges[0].sent) = 1
    /\ Len(bridges[0].events) = 2
    /\ bridges[0].events[1].type = "data"
    /\ bridges[0].events[2].type = "end"
    /\ bridges[0].lateCalls = 0


\* ------------------------------------------------------------------------
\* execRemote: one remote command over the ssh client
\* ------------------------------------------------------------------------
\* chunks the command writes, and the exit codes 'close' can carry
\* ("null": the process ended without an exit code)
StdoutChunks == {"o1", "o2"}
StderrChunks == {"e1"}
ExitCodes == {"0", "1", "127", "null"}
core == <<sessions, sess, calls, bridges, commit>>

\* resolve(v) / reject(v) of a promise that takes the value of every call
SettleAgain(p, st, v) == [state |-> st, value |-> v]

\* resolve(v) / reject(v) of `new Promise((resolve, reject) => ...)`: the
\* first call settles the promise, later calls do nothing
Settle(p, st, v) ==
    IF p.state = "pending" THEN [state |-> st, value |-> v] ELSE p

\* the first of the terminal events (stream close, exec error, timeout)
First(ex, ev) == IF ex.first = "none" THEN ev ELSE ex.first

\* stream.on('data') putting the chunk in front of what has arrived
OnStdoutPrepend(ex, ch) ==
    [ex EXCEPT !.stdout = <<ch>> \o @,
               !.arrived = Append(@, [s |-> "stdout", d |-> ch])]

\* stream.on('data'): stdout += data
OnStdout(ex, ch) ==
    [ex EXCEPT !.stdout = @ \o <<ch>>,
               !.arrived = Append(@, [s |-> "stdout", d |-> ch])]

\* stream.stderr.on('data'): stderr += data
OnStderr(ex, ch) ==
    [ex EXCEPT !.stderr = @ \o <<ch>>,
               !.arrived = Append(@, [s |-> "stderr", d |-> ch])]

\* stream.on('close', code)
OnClose(ex, code) ==
    LET e == [ex EXCEPT !.pc = "closed", !.timer = FALSE, !.code = code,
                        !.first = First(ex, "close")] IN
    IF ex.done
    THEN e
    ELSE IF code # "null" /\ code # "0"
         THEN [e EXCEPT !.done = TRUE,
                        !.promise = Settle(@, "rejected",
                            [kind |-> "exit", code |-> code, stderr |-> ex.stderr])]
         ELSE [e EXCEPT !.done = TRUE,
                        !.promise = Settle(@, "fulfilled",
                            [kind |-> "stdout", text |-> ex.stdout])]

\* the setTimeout callback
OnTimer(ex) ==
    LET e == [ex EXCEPT !.timer = FALSE, !.first = First(ex, "timeout")] IN
    IF ~ex.done
    THEN [e EXCEPT !.done = TRUE,
                   !.promise = Settle(@, "rejected", [kind |-> "timeout"])]
    ELSE e

\* the commands of detectArchitecture, checkVsCodeServerInstalled and
\* installVsCodeServer
Commands == {"uname -m", "test -f server.sh", "install script"}

\* execRemote(sshClient, command, timeoutMs): the timer is armed and
\* sshClient.exec is called
ExecRemote(command) ==
    /\ exec.pc = "idle"
    /\ exec' = [NoExec EXCEPT !.pc = "pending", !.timer = TRUE, !.command = command]
    /\ UNCHANGED <<core, parse, disc, probe, more>>

\* the exec callback is called with an error
ExecCallbackErr ==
    /\ exec.pc = "pending"
    /\ exec' = [exec EXCEPT !.pc = "execerr", !.timer = FALSE,
                            !.first = First(exec, "execerr"),
                            !.promise = Settle(@, "rejected", [kind |-> "exec error"])]
    /\ UNCHANGED <<core, parse, disc, probe, more>>

\* the exec callback is called with a stream: the handlers are registered
ExecCallbackOk ==
    /\ exec.pc = "pending"
    /\ exec' = [exec EXCEPT !.pc = "stream"]
    /\ UNCHANGED <<core, parse, disc, probe, more>>

\* a chunk arrives on stdout (also after the stream's close event)
StdoutData(ch) ==
    /\ exec.pc \in {"stream", "closed"}
    /\ Len(exec.arrived) < MaxChunks
    /\ exec' = OnStdout(exec, ch)
    /\ UNCHANGED <<core, parse, disc, probe, more>>

\* a chunk arrives on stderr
StderrData(ch) ==
    /\ exec.pc \in {"stream", "closed"}
    /\ Len(exec.arrived) < MaxChunks
    /\ exec' = OnStderr(exec, ch)
    /\ UNCHANGED <<core, parse, disc, probe, more>>

\* the stream closes with an exit code
StreamClose(code) ==
    /\ exec.pc = "stream"
    /\ exec' = OnClose(exec, code)
    /\ UNCHANGED <<core, parse, disc, probe, more>>

\* the timer fires (it is armed until it fires or is cleared)
ExecTimeout ==
    /\ exec.timer
    /\ exec' = OnTimer(exec)
    /\ UNCHANGED <<core, parse, disc, probe, more>>

NextExec ==
    \/ \E command \in Commands : ExecRemote(command)
    \/ ExecCallbackErr
    \/ ExecCallbackOk
    \/ \E ch \in StdoutChunks : StdoutData(ch)
    \/ \E ch \in StderrChunks : StderrData(ch)
    \/ \E code \in ExitCodes : StreamClose(code)
    \/ ExecTimeout

\* one execRemote() call driven by the ssh client and the timer
SpecExec == Init /\ [][NextExec]_vars


IsStdout(a) == a.s = "stdout"

\* the stdout chunks of an arrival log, in arrival order
StdoutOf(log) ==
    LET out == SelectSeq(log, IsStdout) IN [i \in 1..Len(out) |-> out[i].d]

\* the outcome of execRemote, with okCodes the exit codes that count as success
ExecOutcome(okCodes) ==
    /\ exec'.promise.state = "fulfilled"
          <=> (exec'.first = "close" /\ exec'.code \in okCodes)
    /\ (exec.promise.state = "pending" /\ exec'.promise.state = "fulfilled")
          => exec'.promise.value = [kind |-> "stdout", text |-> StdoutOf(exec.arrived)]
    /\ exec'.stderr # exec.stderr => exec'.promise = exec.promise
    /\ (exec'.first = "close" /\ exec'.code \notin okCodes)
          => /\ exec'.promise.state = "rejected"
             /\ exec'.promise.value.kind = "exit"
             /\ exec'.promise.value.code = exec'.code
    /\ exec'.first = "execerr"
          => exec'.promise = [state |-> "rejected", value |-> [kind |-> "exec error"]]
    /\ exec'.first = "timeout"
          => exec'.promise = [state |-> "rejected", value |-> [kind |-> "timeout"]]

\* C13 (as stated): execRemote succeeds exactly when the stream closes with
\* exit code 0 before the timeout, returning the stdout chunks in arrival
\* order without the stderr chunks; stderr output alone never fails it; a
\* close with another code fails with an error naming the code; an exec
\* error fails with an exec error; a timeout fails with a timeout error.
C13_SucceedsExactlyOnExitZero == [][ExecOutcome({"0"})]_vars

\* C13 (amended): as stated, except that a close that carries no exit code
\* (null) is a success as well.
C13_SucceedsOnExitZeroOrNoCode == [][ExecOutcome({"0", "null"})]_vars

\* C13 witness: the command wrote o1, e1, o2 and exited with code 0;
\* execRemote returned o1 o2
C13_Witness ==
    /\ exec.pc = "closed"
    /\ exec.code = "0"
    /\ exec.arrived = << [s |-> "stdout", d |-> "o1"], [s |-> "stderr", d |-> "e1"],
                         [s |-> "stdout", d |-> "o2"] >>
    /\ exec.promise = [state |-> "fulfilled",
                       value |-> [kind |-> "stdout", text |-> <<"o1", "o2">>]]


\* ------------------------------------------------------------------------
\* Texts: what parseMoshConnect and parseVsCodeServerPort read
\* ------------------------------------------------------------------------
\* A text is a sequence of tokens, each a run of characters of one kind:
\*   marker  the literal "MOSH CONNECT "
\*   digits  a run of decimal digits (d holds the digits)
\*   key     a run of characters of [A-Za-z0-9+/=] that are not all digits
\*   sp      one space,  nl  "\r\n"
\*   noise   other characters, the first of them outside [A-Za-z0-9+/=]
MaxPort == 65535
MinKeyLen == 22

Tok(t, s, d) == [t |-> t, s |-> s, d |-> d]
Marker == Tok("marker", "MOSH CONNECT ", <<>>)
Space == Tok("sp", " ", <<>>)
CrLf == Tok("nl", "\r\n", <<>>)
Noise == Tok("noise", "[mosh-server] ...", <<>>)
KeyTok(k) == Tok("key", k, <<>>)
DigitsTok(ds) == Tok("digits", "", ds)

DigitChar == <<"0", "1", "2", "3", "4", "5", "6", "7", "8", "9">>

\* String(n): the decimal digits of n
RECURSIVE ToDigits(_)
ToDigits(n) == IF n < 10 THEN <<n>> ELSE Append(ToDigits(n \div 10), n % 10)

\* parseInt(s, 10) of a run of digits
RECURSIVE ParseInt(_)
ParseInt(ds) ==
    IF ds = <<>> THEN 0 ELSE 10 * ParseInt(SubSeq(ds, 1, Len(ds) - 1)) + ds[Len(ds)]

\* the characters of a run of digits, and of a token
RECURSIVE DigitStr(_)
DigitStr(ds) == IF ds = <<>> THEN "" ELSE DigitChar[Head(ds) + 1] \o DigitStr(Tail(ds))
Str(tok) == IF tok.t = "digits" THEN DigitStr(tok.d) ELSE tok.s

\* the characters and the digits of the tokens i..j of a text
RECURSIVE StrOf(_, _, _)
StrOf(text, i, j) == IF i > j THEN "" ELSE Str(text[i]) \o StrOf(text, i + 1, j)
RECURSIVE DigitsOf(_, _, _)
DigitsOf(text, i, j) == IF i > j THEN <<>> ELSE text[i].d \o DigitsOf(text, i + 1, j)

\* the end of the longest run of tokens of the given kinds that starts at i
\* (i - 1 when there is none): a greedy character class
RunEnd(text, i, kinds) ==
    LET js == {j \in i..Len(text) : \A k \in i..j : text[k].t \in kinds} IN
    IF js = {} THEN i - 1 ELSE CHOOSE j \in js : \A x \in js : x <= j

\* the characters of [A-Za-z0-9+/=] a token that is no such run starts with
KeyPrefix(tok) == IF tok.t = "marker" THEN "MOSH" ELSE ""

\* /MOSH CONNECT (\d+) ([A-Za-z0-9+/=]{22,})/ matching at token i: the end
\* of (\d+), the end of the tokens the second group takes whole, the
\* characters of the second group (it runs into the next token's first
\* characters when they are of its class), and the match itself
MoshDigitsEnd(text, i) == RunEnd(text, i + 1, {"digits"})
MoshKeyEnd(text, i) == RunEnd(text, MoshDigitsEnd(text, i) + 2, {"key", "digits"})
MoshKey(text, i) ==
    StrOf(text, MoshDigitsEnd(text, i) + 2, MoshKeyEnd(text, i))
        \o (IF MoshKeyEnd(text, i) < Len(text)
            THEN KeyPrefix(text[MoshKeyEnd(text, i) + 1])
            ELSE "")
MoshMatchAt(text, i) ==
    /\ text[i].t = "marker"
    /\ MoshDigitsEnd(text, i) >= i + 1
    /\ MoshDigitsEnd(text, i) + 1 <= Len(text)
    /\ text[MoshDigitsEnd(text, i) + 1].t = "sp"
    /\ Len(MoshKey(text, i)) >= MinKeyLen

\* parseMoshConnect matching at the start of the text only
parseMoshConnectAnchored(text) ==
    IF text = <<>> \/ ~MoshMatchAt(text, 1)
    THEN NoHandshake
    ELSE LET udpPort == ParseInt(DigitsOf(text, 2, MoshDigitsEnd(text, 1))) IN
         IF udpPort <= 0 \/ udpPort > MaxPort
         THEN NoHandshake
         ELSE [udpPort |-> udpPort, key |-> MoshKey(text, 1)]

\* parseMoshConnect taking the last match of the text
parseMoshConnectLast(text) ==
    LET ms == {i \in 1..Len(text) : MoshMatchAt(text, i)} IN
    IF ms = {}
    THEN NoHandshake
    ELSE LET i == CHOOSE m \in ms : \A x \in ms : x <= m
             udpPort == ParseInt(DigitsOf(text, i + 1, MoshDigitsEnd(text, i)))
             key == MoshKey(text, i) IN
         IF udpPort <= 0 \/ udpPort > MaxPort
         THEN NoHandshake
         ELSE [udpPort |-> udpPort, key |-> key]

\* parseMoshConnect without its check of the port range
parseMoshConnectAnyPort(text) ==
    LET ms == {i \in 1..Len(text) : MoshMatchAt(text, i)} IN
    IF ms = {}
    THEN NoHandshake
    ELSE LET i == CHOOSE m \in ms : \A x \in ms : m <= x IN
         [udpPort |-> ParseInt(DigitsOf(text, i + 1, MoshDigitsEnd(text, i))),
          key |-> MoshKey(text, i)]

\* parseMoshConnect: String.match returns the leftmost match; NoHandshake
\* stands for null
parseMoshConnect(text) ==
    LET ms == {i \in 1..Len(text) : MoshMatchAt(text, i)} IN
    IF ms = {}
    THEN NoHandshake
    ELSE LET i == CHOOSE m \in ms : \A x \in ms : m <= x
             udpPort == ParseInt(DigitsOf(text, i + 1, MoshDigitsEnd(text, i)))
             key == MoshKey(text, i) IN
         IF udpPort <= 0 \/ udpPort > MaxPort
         THEN NoHandshake
         ELSE [udpPort |-> udpPort, key |-> key]

\* the ports and keys of the handshake lines given to the parser
LinePorts == {0, 1, 65535, 65536}
LineKeys == {"4NeCCgvZFe+RnPgrcU/PQw==", "AAAAAAAAAAAAAAAAAAAAAA", "BBBBBBBBBBBBBBBBBBBBB"}

\* "MOSH CONNECT <port> <key>"
HandshakeLine(port, k) == <<Marker, DigitsTok(ToDigits(port)), Space, KeyTok(k)>>

\* the segments a text for parseMoshConnect is made of: handshake lines,
\* a line without a key, and single tokens
MoshSegments ==
    {HandshakeLine(p, k) : p \in LinePorts, k \in LineKeys}
        \cup {<<Marker, DigitsTok(ToDigits(60001))>>}
        \cup {<<Marker>>, <<CrLf>>, <<Noise>>, <<Space>>, <<KeyTok("ab")>>, <<DigitsTok(<<7>>)>>}

RECURSIVE Flatten(_)
Flatten(segs) == IF segs = <<>> THEN <<>> ELSE Head(segs) \o Flatten(Tail(segs))

TextsOf(segments) ==
    {Flatten(segs) : segs \in UNION {[1..n -> segments] : n \in 0..MaxSegs}}

\* a text has been handed to parseMoshConnect
InitParse ==
    /\ sessions = [a \in Authorities |-> 0]
    /\ sess = [s \in CallIds |-> NoSession]
    /\ calls = [c \in CallIds |-> NoCall]
    /\ bridges = [b \in BridgeIds |-> NoBridge]
    /\ commit = TRUE
    /\ exec = NoExec
    /\ disc = NoDisc
    /\ probe = NoProbe
    /\ conn = NoConn
    /\ \E text \in TextsOf(MoshSegments) :
          parse = [NoParse EXCEPT !.fn = "mosh", !.text = text]

\* parseMoshConnect(output) returns
ParseMosh ==
    /\ parse.fn = "mosh"
    /\ parse.pc = "input"
    /\ parse' = [parse EXCEPT !.pc = "done", !.result = parseMoshConnect(parse.text)]
    /\ UNCHANGED <<core, exec, disc, probe, more>>

NextParse ==
    \/ ParseMosh

SpecParse == InitParse /\ [][NextParse]_vars


\* ------------------------------------------------------------------------
\* Properties of parseMoshConnect (checked under SpecParse)
\* ------------------------------------------------------------------------
ValidPort(p) == 1 <= p /\ p <= 65535
ValidKey(k) == Len(k) >= 22
MoshDone == parse.fn = "mosh" /\ parse.pc = "done"

\* a handshake line, alone or between line ends
LineAlone(p, k) ==
    { HandshakeLine(p, k), HandshakeLine(p, k) \o <<CrLf>>,
      <<CrLf>> \o HandshakeLine(p, k) \o <<CrLf>> }

\* C16: for a handshake line with 1 <= port <= 65535 and a key of 22 or
\* more characters parseMoshConnect returns exactly that port and key; for
\* port 0, a port above 65535, a shorter key, a missing key or the empty
\* text it returns null.
C16_HandshakeLineParsed ==
    MoshDone =>
        /\ \A p \in LinePorts, k \in LineKeys :
              parse.text \in LineAlone(p, k)
                  => parse.result = IF ValidPort(p) /\ ValidKey(k)
                                    THEN [udpPort |-> p, key |-> k]
                                    ELSE NoHandshake
        /\ parse.text \in { <<>>, <<Marker>>, <<Marker, DigitsTok(<<6, 0, 0, 0, 1>>)>>,
                            <<Marker, DigitsTok(<<6, 0, 0, 0, 1>>), Space>> }
              => parse.result = NoHandshake

\* C16 witness: the line with port 65535 and a key of exactly 22 characters
\* was parsed
C16_Witness ==
    /\ MoshDone
    /\ parse.text = HandshakeLine(65535, "AAAAAAAAAAAAAAAAAAAAAA") \o <<CrLf>>
    /\ parse.result = [udpPort |-> 65535, key |-> "AAAAAAAAAAAAAAAAAAAAAA"]


\* a valid handshake line stands at token i of the parsed text
ValidLineAt(i, p, k) ==
    /\ ValidPort(p) /\ ValidKey(k)
    /\ i + 3 <= Len(parse.text)
    /\ SubSeq(parse.text, i, i + 3) = HandshakeLine(p, k)

\* the token after the line that starts at i begins with a character
\* outside the key alphabet, or the text ends with the line
LineEndsAt(i) ==
    i + 4 <= Len(parse.text) => parse.text[i + 4].t \in {"nl", "sp", "noise"}

\* no marker before token i is followed by digits, a space and 22 or more
\* key characters
NoEarlierMatch(i) ==
    \A j \in 1..(i - 1) :
        ~(/\ parse.text[j].t = "marker"
          /\ \E e \in (j + 1)..(i - 1) :
                /\ \A x \in (j + 1)..e : parse.text[x].t = "digits"
                /\ parse.text[e + 1].t = "sp"
                /\ \E f \in (e + 1)..Len(parse.text) :
                      /\ \A x \in (e + 2)..f : parse.text[x].t \in {"key", "digits"}
                      /\ Len(StrOf(parse.text, e + 2, f))
                            + (IF f < Len(parse.text) /\ parse.text[f + 1].t = "marker"
                               THEN 4 ELSE 0) >= 22)

\* C17 (as stated): when the text contains a valid handshake line
\* somewhere, whatever stands before and after it, parseMoshConnect returns
\* that line's port and key.
C17_LineFoundAmongAnyText ==
    MoshDone =>
        \A p \in LinePorts, k \in LineKeys, i \in 1..Len(parse.text) :
            ValidLineAt(i, p, k) => parse.result = [udpPort |-> p, key |-> k]

\* C17 (amended): when the text contains a valid handshake line, nothing
\* before it has the shape of a handshake line (marker, digits, space, 22 or
\* more key characters) and the line's key is followed by a character
\* outside the key alphabet or by the end of the text, parseMoshConnect
\* returns that line's port and key, whatever else stands before and after.
C17_FirstLineFoundAmongNoise ==
    MoshDone =>
        \A p \in LinePorts, k \in LineKeys, i \in 1..Len(parse.text) :
            (ValidLineAt(i, p, k) /\ NoEarlierMatch(i) /\ LineEndsAt(i))
                => parse.result = [udpPort |-> p, key |-> k]

\* C17 witness: a log line, the handshake line with port 65535, then a
\* line end; the line was parsed
C17_Witness ==
    /\ MoshDone
    /\ parse.text = <<Noise>> \o HandshakeLine(65535, "4NeCCgvZFe+RnPgrcU/PQw==") \o <<CrLf>>
    /\ parse.result = [udpPort |-> 65535, key |-> "4NeCCgvZFe+RnPgrcU/PQw=="]

\* every marker of the text starts a valid handshake line that ends the
\* text or is followed by a line end
OnlyValidLines ==
    \A m \in 1..Len(parse.text) :
        parse.text[m].t = "marker"
            => /\ \E p \in LinePorts, k \in LineKeys : ValidLineAt(m, p, k)
               /\ m + 4 <= Len(parse.text) => parse.text[m + 4].t = "nl"

NoPort == 0
Patterns == 1..5
PhraseText ==
    << "Accepting connections at", "Extension host agent listening on ",
       "Server bound to ", "listening on ", "started on port " >>
Phrase(k) == Tok("phrase", PhraseText[k], <<>>)
Colon == Tok("colon", ":", <<>>)
Host == Tok("host", "127.0.0.1:", <<>>)
AgentNoise == Tok("noise", "* VS Code Server", <<>>)

\* the digits a token that is no digit run starts with
DigitPrefix(tok) == IF tok.t = "host" THEN <<1, 2, 7>> ELSE <<>>

\* (\d+) at token i: the longest run of digits that starts there
DigitsFrom(text, i) ==
    LET e == RunEnd(text, i, {"digits"}) IN
    DigitsOf(text, i, e) \o (IF e < Len(text) THEN DigitPrefix(text[e + 1]) ELSE <<>>)

\* (?:127\.0\.0\.1:)?(\d+) at token i; without the optional group when
\* ~optHost.  When the digits do not follow the host, the group matches
\* nothing and (\d+) takes the host's own first digits.
Capture(text, i, optHost) ==
    IF optHost /\ i <= Len(text) /\ text[i].t = "host" /\ DigitsFrom(text, i + 1) # <<>>
    THEN DigitsFrom(text, i + 1)
    ELSE DigitsFrom(text, i)

\* the phrase of pattern k ends with token i
PhraseAt(text, i, k) ==
    /\ text[i].t = "phrase"
    /\ \/ text[i] = Phrase(k)
       \/ k = 4 /\ text[i] = Phrase(2)

\* pattern 1 after its phrase at token i: [^:]* runs to the first colon (a
\* colon token or the colon that ends a host), \s* over spaces and line ends
AfterColon(text, i) ==
    LET cs == {c \in (i + 1)..Len(text) : text[c].t \in {"colon", "host"}} IN
    IF cs = {}
    THEN 0
    ELSE RunEnd(text, (CHOOSE c \in cs : \A x \in cs : c <= x) + 1, {"sp", "nl"}) + 1

\* the first group of pattern k when the pattern matches with its phrase at
\* token i (<<>> when it does not match there)
CaptureAt(text, i, k) ==
    IF ~PhraseAt(text, i, k)
    THEN <<>>
    ELSE IF k = 1
         THEN IF AfterColon(text, i) = 0 THEN <<>> ELSE Capture(text, AfterColon(text, i), TRUE)
         ELSE Capture(text, i + 1, k \in {3, 4})

\* output.match(pattern k): the first group of the leftmost match
MatchOf(text, k) ==
    LET ms == {i \in 1..Len(text) : CaptureAt(text, i, k) # <<>>} IN
    IF ms = {} THEN <<>> ELSE CaptureAt(text, CHOOSE m \in ms : \A x \in ms : m <= x, k)

\* pattern k yields a port: it matches and its capture is in range
Yields(text, k) ==
    /\ MatchOf(text, k) # <<>>
    /\ ParseInt(MatchOf(text, k)) > 0
    /\ ParseInt(MatchOf(text, k)) < MaxPort + 1

\* parseVsCodeServerPort returning the capture of the pattern that matches
\* leftmost in the text
parseVsCodeServerPortLeftmost(text) ==
    LET at(k) == CHOOSE i \in 1..Len(text) :
                    /\ CaptureAt(text, i, k) # <<>>
                    /\ \A x \in 1..Len(text) : CaptureAt(text, x, k) # <<>> => i <= x
        ks == {k \in Patterns : Yields(text, k)} IN
    IF ks = {}
    THEN NoPort
    ELSE ParseInt(MatchOf(text, CHOOSE k \in ks : \A x \in ks : at(k) <= at(x)))

\* parseVsCodeServerPort returning at the first pattern that matches,
\* whatever its capture
parseVsCodeServerPortNoRange(text) ==
    LET ks == {k \in Patterns : MatchOf(text, k) # <<>>} IN
    IF ks = {}
    THEN NoPort
    ELSE ParseInt(MatchOf(text, CHOOSE k \in ks : \A x \in ks : k <= x))

\* parseVsCodeServerPort: the patterns in the order of the list, the first
\* that yields a port decides; NoPort stands for null
parseVsCodeServerPort(text) ==
    LET ks == {k \in Patterns : Yields(text, k)} IN
    IF ks = {}
    THEN NoPort
    ELSE ParseInt(MatchOf(text, CHOOSE k \in ks : \A x \in ks : k <= x))

\* a line of the agent's output that pattern k recognises, with port p
PortLine(k, p) ==
    IF k = 1
    THEN <<Phrase(1), Colon, Space, DigitsTok(ToDigits(p))>>
    ELSE <<Phrase(k), DigitsTok(ToDigits(p))>>

\* the same with the loopback address in front of the port
HostLine(k, p) ==
    IF k = 1
    THEN <<Phrase(1), Colon, Space, Host, DigitsTok(ToDigits(p))>>
    ELSE <<Phrase(k), Host, DigitsTok(ToDigits(p))>>

PortSegments ==
    {PortLine(k, p) : k \in Patterns, p \in LinePorts}
        \cup {HostLine(k, 39423) : k \in {1, 2, 3}}
        \cup {<<CrLf>>, <<AgentNoise>>, <<Phrase(1)>>, <<Phrase(4)>>, <<Host>>,
              <<DigitsTok(<<7>>)>>}

PortTexts ==
    {Flatten(segs) : segs \in UNION {[1..n -> PortSegments] : n \in 0..MaxPortSegs}}

\* a text has been handed to parseVsCodeServerPort
InitPort ==
    /\ sessions = [a \in Authorities |-> 0]
    /\ sess = [s \in CallIds |-> NoSession]
    /\ calls = [c \in CallIds |-> NoCall]
    /\ bridges = [b \in BridgeIds |-> NoBridge]
    /\ commit = TRUE
    /\ exec = NoExec
    /\ disc = NoDisc
    /\ probe = NoProbe
    /\ conn = NoConn
    /\ \E text \in PortTexts :
          parse = [fn |-> "port", text |-> text, pc |-> "input", result |-> NoPort]

\* parseVsCodeServerPort(output) returns
ParsePort ==
    /\ parse.fn = "port"
    /\ parse.pc = "input"
    /\ parse' = [parse EXCEPT !.pc = "done", !.result = parseVsCodeServerPort(parse.text)]
    /\ UNCHANGED <<core, exec, disc, probe, more>>

NextPort ==
    \/ ParsePort

SpecPort == InitPort /\ [][NextPort]_vars


\* ------------------------------------------------------------------------
\* Properties of parseVsCodeServerPort (checked under SpecPort)
\* ------------------------------------------------------------------------
PortDone == parse.fn = "port" /\ parse.pc = "done"

\* the texts made of the two lines, in either order, with or without a
\* line end between them
TwoLines(x, y) == {x \o y, y \o x, x \o <<CrLf>> \o y, y \o <<CrLf>> \o x}

\* C19: for a text that two different patterns match with captures in
\* range, the result is the capture of the pattern that comes first in the
\* list, whichever of the two matches stands first in the text.
C19_PriorityBeforePosition ==
    PortDone =>
        \A a \in Patterns, b \in Patterns, pa \in LinePorts, pb \in LinePorts :
            (/\ a < b
             /\ ValidPort(pa) /\ ValidPort(pb)
             /\ parse.text \in TwoLines(PortLine(a, pa), PortLine(b, pb)))
                => parse.result = pa

\* C19 witness: "started on port 1" stands before "Server bound to 65535";
\* the result is 65535
C19_Witness ==
    /\ PortDone
    /\ parse.text = PortLine(5, 1) \o PortLine(3, 65535)
    /\ parse.result = 65535

\* C20: the result is null or a port in 1..65535; a capture of 0 or above
\* 65535 counts as no match of its pattern, so that a later pattern with a
\* capture in range decides and a text whose captures are all out of range
\* (or that has none, like the empty text, noise or stray digits) gives null.
C20_ResultInRange ==
    PortDone =>
        /\ parse.result = NoPort \/ (1 <= parse.result /\ parse.result <= 65535)
        /\ \A a \in Patterns, b \in Patterns, pa \in LinePorts, pb \in LinePorts :
              (/\ a # b /\ <<a, b>> # <<2, 4>>
               /\ ~ValidPort(pa)
               /\ parse.text \in TwoLines(PortLine(a, pa), PortLine(b, pb)))
                  => parse.result = IF ValidPort(pb) THEN pb ELSE NoPort
        /\ \A a \in Patterns, pa \in LinePorts :
              (~ValidPort(pa) /\ parse.text \in {PortLine(a, pa), PortLine(a, pa) \o <<CrLf>>})
                  => parse.result = NoPort
        /\ parse.text \in {<<>>, <<AgentNoise>>, <<AgentNoise, DigitsTok(<<7>>)>>,
                           <<DigitsTok(<<7>>)>>, <<Phrase(4)>>, <<Host>>}
              => parse.result = NoPort

\* C20 witness: "listening on 65536" is followed by "started on port 65535";
\* the out-of-range capture was passed over and the result is 65535
C20_Witness ==
    /\ PortDone
    /\ parse.text = PortLine(4, 65536) \o PortLine(5, 65535)
    /\ parse.result = 65535


\* ------------------------------------------------------------------------
\* Streaming discovery: _startMoshServer and startVsCodeServer
\* ------------------------------------------------------------------------
ConnectionTokens == {"tokA", "tokB"}

\* chunks of output of the agent and of mosh-server
AgentChunks ==
    { <<AgentNoise, CrLf>>, <<Phrase(4)>>, <<DigitsTok(<<3, 9, 4, 2, 3>>), CrLf>>,
      PortLine(1, 0) \o <<CrLf>>, HostLine(1, 39423) \o <<CrLf>> }
MoshChunks ==
    { <<Noise, CrLf>>, <<Marker, DigitsTok(<<6, 0, 0, 0, 1>>)>>,
      <<Space, KeyTok("4NeCCgvZFe+RnPgrcU/PQw=="), CrLf>>,
      HandshakeLine(60002, "AAAAAAAAAAAAAAAAAAAAAA") \o <<CrLf>>,
      HandshakeLine(65536, "AAAAAAAAAAAAAAAAAAAAAA") \o <<CrLf>>,
      HandshakeLine(60001, "BBBBBBBBBBBBBBBBBBBBB") \o <<CrLf>> }
\* pieces of one line of output, cut inside the port and inside the key, and
\* whole lines
AgentPieces ==
    { <<AgentNoise, CrLf>>,
      <<Phrase(4), DigitsTok(<<3, 9, 4>>)>>, <<DigitsTok(<<2, 3>>), CrLf>>,
      PortLine(4, 39423) \o <<CrLf>>, PortLine(1, 8000) \o <<CrLf>> }
MoshPieces ==
    { <<Noise, CrLf>>,
      <<Marker, DigitsTok(<<6, 0>>)>>,
      <<DigitsTok(<<0, 0, 1>>), Space, KeyTok("4NeCCgvZFe+RnPgrcU/PQw")>>,
      <<Marker, DigitsTok(<<6, 0, 0, 0, 1>>), Space, KeyTok("4NeCCgvZFe+RnPgrcU/PQw")>>,
      <<KeyTok("=="), CrLf>>,
      HandshakeLine(60001, "4NeCCgvZFe+RnPgrcU/PQw==") \o <<CrLf>> }
ChunksOf(kind) ==
    IF kind = "agent" THEN AgentChunks \cup AgentPieces ELSE MoshChunks \cup MoshPieces

\* logger.ts: the levels, and the configured ones the model starts with
LEVEL_NUM == [error |-> 0, warn |-> 1, info |-> 2, debug |-> 3, trace |-> 4]
LogLevels == {"info", "trace"}

\* the session keys that a text holds in full
SecretsIn(text) == {text[i].s : i \in {j \in 1..Len(text) : text[j].t = "key"}}

\* log(levelStr, levelNum, ...args): a message above the configured level
\* is dropped; of a written line the model keeps the level, the message's
\* fixed part and the secrets its text holds in full
Log(d, level, msg, secrets) ==
    IF LEVEL_NUM[level] > d.levelNum
    THEN d
    ELSE [d EXCEPT !.log = @ \cup {[level |-> level, msg |-> msg, secrets |-> secrets]}]

\* the line a data handler writes for a chunk: startVsCodeServer logs both
\* streams at debug, _startMoshServer stdout at trace and stderr at debug
LogChunk(d, fd, chunk) ==
    Log(d, IF d.kind = "mosh" /\ fd = "stdout" THEN "trace" ELSE "debug", fd,
        SecretsIn(chunk))

\* what the operation resolves with when the parser finds something in text
\* (NoFind when it finds nothing)
NoFind == [found |-> FALSE]
Find(d, text) ==
    IF d.kind = "agent"
    THEN LET port == parseVsCodeServerPort(text) IN
         IF port # NoPort
         THEN [port |-> port, connectionToken |-> d.connectionToken]
         ELSE NoFind
    ELSE LET parsed == parseMoshConnect(text) IN
         IF parsed # NoHandshake
         THEN parsed
         ELSE NoFind

\* the data handler parsing the new chunk alone
OnOutputChunkOnly(d, chunk) ==
    LET o == [d EXCEPT !.output = @ \o chunk]
        found == Find(d, chunk) IN
    IF found # NoFind /\ ~d.resolved
    THEN [o EXCEPT !.resolved = TRUE, !.timer = FALSE, !.successes = @ + 1,
                   !.promise = Settle(@, "fulfilled", found)]
    ELSE o

\* the data handler: output += text, then the parser runs on the whole
\* output; on a find (and !resolved) the timer is cleared, the success is
\* logged and reported (successes counts that) and the promise resolved
OnOutput(d, chunk) ==
    LET o == [d EXCEPT !.output = @ \o chunk]
        found == Find(d, o.output) IN
    IF found # NoFind /\ ~d.resolved
    THEN [Log(o, "info", "success", {})
            EXCEPT !.resolved = TRUE, !.timer = FALSE, !.successes = @ + 1,
                   !.promise = Settle(@, "fulfilled", found)]
    ELSE o

\* stream.on('close', code): rejects when nothing was found
OnDiscClose(d, code) ==
    LET c == [d EXCEPT !.pc = "closed", !.code = code] IN
    IF ~d.resolved
    THEN [c EXCEPT !.timer = FALSE,
                   !.promise = Settle(@, "rejected", [kind |-> "exit", code |-> code])]
    ELSE c

\* the setTimeout callback doing nothing
OnDiscTimerIgnored(d) == [d EXCEPT !.timer = FALSE]

\* the setTimeout callback
OnDiscTimer(d) ==
    IF ~d.resolved
    THEN [d EXCEPT !.timer = FALSE, !.resolved = TRUE,
                   !.promise = Settle(@, "rejected", [kind |-> "timeout"])]
    ELSE [d EXCEPT !.timer = FALSE]

\* startVsCodeServer(sshClient, commit, connectionToken): the timer is
\* armed and sshClient.exec is called
StartVsCodeServer(tok, lvl) ==
    /\ disc.pc = "idle"
    /\ disc' = [Log(Log([NoDisc EXCEPT !.levelNum = LEVEL_NUM[lvl]],
                        "info", "starting", {}),
                    "debug", "command", {tok})
                    EXCEPT !.kind = "agent", !.pc = "pending", !.timer = TRUE,
                           !.connectionToken = tok]
    /\ UNCHANGED <<core, exec, parse, probe, more>>

\* _startMoshServer(sshClient, opts)
StartMoshServer(lvl) ==
    /\ disc.pc = "idle"
    /\ disc' = [Log([NoDisc EXCEPT !.levelNum = LEVEL_NUM[lvl]], "debug", "command", {})
                    EXCEPT !.kind = "mosh", !.pc = "pending", !.timer = TRUE]
    /\ UNCHANGED <<core, exec, parse, probe, more>>

\* the exec callback is called with an error
DiscExecErr ==
    /\ disc.pc = "pending"
    /\ disc' = [disc EXCEPT !.pc = "execerr", !.timer = FALSE,
                            !.promise = Settle(@, "rejected", [kind |-> "exec error"])]
    /\ UNCHANGED <<core, exec, parse, probe, more>>

\* the exec callback is called with a stream
DiscExecOk ==
    /\ disc.pc = "pending"
    /\ disc' = [disc EXCEPT !.pc = "stream"]
    /\ UNCHANGED <<core, exec, parse, probe, more>>

\* a chunk arrives on stdout (also after the stream's close event)
DiscStdout(chunk) ==
    /\ disc.pc \in {"stream", "closed"}
    /\ chunk \in ChunksOf(disc.kind)
    /\ disc.chunks + disc.errChunks < MaxOutput
    /\ disc' = [OnOutput(LogChunk(disc, "stdout", chunk), chunk) EXCEPT !.chunks = @ + 1]
    /\ UNCHANGED <<core, exec, parse, probe, more>>

\* a chunk arrives on stderr: startVsCodeServer treats it like stdout,
\* _startMoshServer only logs it
DiscStderr(chunk) ==
    /\ disc.pc \in {"stream", "closed"}
    /\ chunk \in ChunksOf(disc.kind)
    /\ disc.chunks + disc.errChunks < MaxOutput
    /\ disc' = [(IF disc.kind = "agent"
                  THEN OnOutput(LogChunk(disc, "stderr", chunk), chunk)
                  ELSE LogChunk(disc, "stderr", chunk))
                    EXCEPT !.errChunks = @ + 1]
    /\ UNCHANGED <<core, exec, parse, probe, more>>

\* the stream closes with an exit code
DiscClose(code) ==
    /\ disc.pc = "stream"
    /\ disc' = OnDiscClose(disc, code)
    /\ UNCHANGED <<core, exec, parse, probe, more>>

\* the timer fires
DiscTimeout ==
    /\ disc.timer
    /\ disc' = OnDiscTimer(disc)
    /\ UNCHANGED <<core, exec, parse, probe, more>>

NextDisc ==
    \/ \E tok \in ConnectionTokens, lvl \in LogLevels : StartVsCodeServer(tok, lvl)
    \/ \E lvl \in LogLevels : StartMoshServer(lvl)
    \/ DiscExecErr
    \/ DiscExecOk
    \/ \E chunk \in AgentChunks \cup MoshChunks : DiscStdout(chunk)
    \/ \E chunk \in AgentChunks \cup MoshChunks : DiscStderr(chunk)
    \/ \E code \in ExitCodes : DiscClose(code)
    \/ DiscTimeout

SpecDisc == Init /\ [][NextDisc]_vars


\* ------------------------------------------------------------------------
\* C14, C15: the outcome of a streaming discovery
\* ------------------------------------------------------------------------
\* the step is the arrival of a chunk on stdout or stderr
DataStep == disc'.chunks + disc'.errChunks > disc.chunks + disc.errChunks

AgentPending == disc.kind = "agent" /\ disc.promise.state = "pending"

\* C14: startVsCodeServer resolves with {port, connectionToken} on the
\* first chunk (stdout or stderr) after which the accumulated output yields
\* a port, the token being the one passed in; while nothing was found, the
\* timer rejects with the timeout error, the stream's close rejects with the
\* exit error carrying the code, an exec error rejects; a settled promise
\* never changes.
C14_AgentOutcome ==
    [][ /\ disc.pc # "idle" => /\ disc'.connectionToken = disc.connectionToken
                               /\ disc'.kind = disc.kind
        /\ disc.promise.state # "pending" => disc'.promise = disc.promise
        /\ AgentPending =>
            /\ parseVsCodeServerPort(disc.output) = NoPort
            /\ DataStep =>
                 IF parseVsCodeServerPort(disc'.output) # NoPort
                 THEN disc'.promise =
                        [state |-> "fulfilled",
                         value |-> [port |-> parseVsCodeServerPort(disc'.output),
                                    connectionToken |-> disc.connectionToken]]
                 ELSE disc'.promise = PendingPromise
            /\ (disc.pc = "stream" /\ disc'.pc = "closed") =>
                 disc'.promise = [state |-> "rejected",
                                  value |-> [kind |-> "exit", code |-> disc'.code]]
            /\ disc'.pc = "execerr" =>
                 disc'.promise = [state |-> "rejected", value |-> [kind |-> "exec error"]]
            /\ (disc.pc = "pending" /\ disc'.pc = "stream") =>
                 disc'.promise = PendingPromise
            /\ (~DataStep /\ disc'.pc = disc.pc) =>
                 /\ disc.timer
                 /\ disc'.promise = [state |-> "rejected", value |-> [kind |-> "timeout"]]
      ]_vars

\* the port arrives split over a stdout and a stderr chunk, after a line of
\* noise, and the operation has resolved with it and with the token
C14_Witness ==
    /\ disc.kind = "agent"
    /\ disc.output = <<AgentNoise, CrLf, Phrase(4), DigitsTok(<<3, 9, 4, 2, 3>>), CrLf>>
    /\ disc.chunks = 2
    /\ disc.errChunks = 1
    /\ disc.promise = [state |-> "fulfilled",
                       value |-> [port |-> 39423, connectionToken |-> "tokB"]]

\* C15: a discovery operation gives at most one terminal signal: success
\* is reported (log, progress callback) at most once and only by an
\* operation whose promise is fulfilled; an operation that was rejected by
\* the process exit or by the timeout reports no success afterwards.
C15_SingleTerminalSignal ==
    /\ disc.successes <= 1
    /\ disc.successes = 1 => disc.promise.state = "fulfilled"
    /\ disc.promise.state = "rejected" => disc.successes = 0


\* ------------------------------------------------------------------------
\* detectArchitecture, checkVsCodeServerInstalled, installVsCodeServer
\* ------------------------------------------------------------------------
\* the stdout of the remote command, as a sequence of pieces: white space,
\* machine types (whole or in two pieces), the answers of the install check
WhiteSpace == {" ", "\n"}
Words == {"x86_64", "aarch64", "arm64", "armv7l", "armv6l", "riscv64", "aarch", "64",
          "exists", "missing"}
ProbeTexts == UNION {[1..n -> WhiteSpace \cup Words] : n \in 0..MaxProbeToks}

\* what `await execRemote(...)` can deliver: stdout, or one of its rejections
ExecOutcomes ==
    {[state |-> "fulfilled", value |-> [kind |-> "stdout", text |-> text]] : text \in ProbeTexts}
        \cup {[state |-> "rejected", value |-> [kind |-> k]] : k \in {"exec error", "exit", "timeout"}}

\* String.prototype.trim
RECURSIVE TrimStart(_)
TrimStart(text) ==
    IF text # <<>> /\ Head(text) \in WhiteSpace THEN TrimStart(Tail(text)) ELSE text
RECURSIVE TrimEnd(_)
TrimEnd(text) ==
    IF text # <<>> /\ text[Len(text)] \in WhiteSpace
    THEN TrimEnd(SubSeq(text, 1, Len(text) - 1))
    ELSE text
Trim(text) == TrimEnd(TrimStart(text))

\* the characters of a text
RECURSIVE Chars(_)
Chars(text) == IF text = <<>> THEN "" ELSE Head(text) \o Chars(Tail(text))

\* the switch without the arm64 case
ArchOfNoArm64(raw) ==
    CASE raw = "x86_64" -> "x64"
      [] raw = "aarch64" -> "arm64"
      [] raw \in {"armv7l", "armv6l"} -> "armhf"
      [] OTHER -> "x64"

\* the switch of detectArchitecture
ArchOf(raw) ==
    CASE raw = "x86_64" -> "x64"
      [] raw \in {"aarch64", "arm64"} -> "arm64"
      [] raw \in {"armv7l", "armv6l"} -> "armhf"
      [] OTHER -> "x64"
KnownArch == {"x86_64", "aarch64", "arm64", "armv7l", "armv6l"}

\* the comparison of checkVsCodeServerInstalled without the trim
InstalledUntrimmed(text) == Chars(text) = "exists"

\* result.trim() === 'exists'
Installed(text) == Chars(Trim(text)) = "exists"

\* a helper is called; a finished call goes to the list of past calls
ProbeCall(fn) ==
    /\ probe.pc \in {"idle", "done"}
    /\ Len(probe.past) + (IF probe.pc = "done" THEN 1 ELSE 0) < MaxProbeCalls
    /\ probe' = [NoProbe EXCEPT
                    !.fn = fn, !.pc = "awaiting",
                    !.past = IF probe.pc = "done"
                             THEN Append(probe.past, [fn |-> probe.fn, threw |-> probe.threw])
                             ELSE probe.past]
    /\ UNCHANGED <<core, exec, parse, disc, more>>

\* detectArchitecture after `await execRemote(sshClient, 'uname -m')`
DetectSettle(o) ==
    /\ probe.fn = "detect" /\ probe.pc = "awaiting"
    /\ probe' = IF o.state = "rejected"
                THEN [probe EXCEPT !.pc = "done", !.out = o, !.threw = TRUE]
                ELSE [probe EXCEPT !.pc = "done", !.out = o,
                                   !.result = ArchOf(Chars(Trim(o.value.text))),
                                   !.warned = Chars(Trim(o.value.text)) \notin KnownArch]
    /\ UNCHANGED <<core, exec, parse, disc, more>>

\* checkVsCodeServerInstalled after its `await execRemote(sshClient, cmd)`:
\* the catch block turns every rejection into false
CheckSettle(o) ==
    /\ probe.fn = "check" /\ probe.pc = "awaiting"
    /\ probe' = IF o.state = "rejected"
                THEN [probe EXCEPT !.pc = "done", !.out = o, !.result = FALSE,
                                   !.warned = TRUE]
                ELSE [probe EXCEPT !.pc = "done", !.out = o,
                                   !.result = Installed(o.value.text)]
    /\ UNCHANGED <<core, exec, parse, disc, more>>

\* installVsCodeServer after its `await execRemote(sshClient, script, timeoutMs)`
InstallSettle(o) ==
    /\ probe.fn = "install" /\ probe.pc = "awaiting"
    /\ probe' = [probe EXCEPT !.pc = "done", !.out = o, !.threw = (o.state = "rejected")]
    /\ UNCHANGED <<core, exec, parse, disc, more>>

\* the execRemote() a helper awaits settles, with any outcome
DetectReturns == probe.pc = "awaiting" /\ \E o \in ExecOutcomes : DetectSettle(o)
CheckReturns == probe.pc = "awaiting" /\ \E o \in ExecOutcomes : CheckSettle(o)
InstallReturns == probe.pc = "awaiting" /\ \E o \in ExecOutcomes : InstallSettle(o)

NextProbe ==
    \/ \E fn \in {"detect", "check", "install"} : ProbeCall(fn)
    \/ DetectReturns
    \/ CheckReturns
    \/ InstallReturns

SpecProbe == Init /\ [][NextProbe]_vars

\* ------------------------------------------------------------------------
\* C21, C22: the results of the helpers
\* ------------------------------------------------------------------------
DetectDone_ == probe.fn = "detect" /\ probe.pc = "done"
ProbeStdout == Trim(probe.out.value.text)

\* C21: when the probe command succeeds, detectArchitecture does not fail
\* and returns x64 for x86_64, arm64 for aarch64 and arm64, armhf for armv7l
\* and armv6l, and x64 with a warning for every other trimmed machine type.
C21_ArchitectureMapping ==
    (DetectDone_ /\ probe.out.state = "fulfilled") =>
        /\ ~probe.threw
        /\ probe.result \in {"x64", "arm64", "armhf"}
        /\ ProbeStdout = <<"x86_64">> => probe.result = "x64" /\ ~probe.warned
        /\ ProbeStdout \in {<<"aarch64">>, <<"arm64">>, <<"aarch", "64">>}
              => probe.result = "arm64" /\ ~probe.warned
        /\ ProbeStdout \in {<<"armv7l">>, <<"armv6l">>} => probe.result = "armhf" /\ ~probe.warned
        /\ (Len(ProbeStdout) # 1 /\ ProbeStdout # <<"aarch", "64">>)
              => probe.result = "x64" /\ probe.warned
        /\ (Len(ProbeStdout) = 1 /\ ProbeStdout[1] \notin KnownArch)
              => probe.result = "x64" /\ probe.warned

\* "arm64" between white space was mapped to arm64 without a warning
C21_Witness ==
    /\ DetectDone_
    /\ probe.out.state = "fulfilled"
    /\ probe.out.value.text = <<" ", "arm64", "\n">>
    /\ probe.result = "arm64"
    /\ ~probe.warned

\* C22: checkVsCodeServerInstalled ends with a boolean and never throws:
\* true exactly when the command succeeded and its trimmed stdout is
\* "exists", false on every failure of the executor, also after a failed
\* install.
C22_CheckTotal ==
    (probe.fn = "check" /\ probe.pc = "done") =>
        /\ ~probe.threw
        /\ probe.result \in BOOLEAN
        /\ probe.result <=> (/\ probe.out.state = "fulfilled"
                             /\ ProbeStdout = <<"exists">>)

\* after a failed install, the check ran on "exists" followed by a line end
\* and returned true
C22_Witness ==
    /\ probe.past = <<[fn |-> "install", threw |-> TRUE]>>
    /\ probe.fn = "check" /\ probe.pc = "done"
    /\ probe.out.state = "fulfilled"
    /\ probe.out.value.text = <<"exists", "\n">>
    /\ probe.result = TRUE


\* ------------------------------------------------------------------------
\* One MoshSession: resolve() without a commit hash, makeConnection, dispose
\* ------------------------------------------------------------------------
\* MoshSession.dispose() called on session s
DisposeSession(s) ==
    /\ sess[s].made
    /\ sess[s].disposeCalls < MaxDisposeCalls
    /\ sess' = DisposedSess({s})
    /\ bridges' = DisposedBridges({s})
    /\ UNCHANGED <<sessions, calls, commit, aux>>

InitSession == Init /\ ~commit

NextSession ==
    \/ \E a \in Authorities : ResolveStart(1, a, 0)
    \/ SshReady(1)
    \/ \E info \in HandshakeResults : HsMatch(1, info)
    \/ MakeConnection(1)
    \/ \E b \in 1..MaxBridges : ConnectOk(b)
    \/ \E b \in 1..MaxBridges, e \in SocketErrors : ConnectSocketError(b, e)
    \/ \E b \in 1..MaxBridges : End(b)
    \/ \E b \in 1..MaxBridges : SocketClose(b)
    \/ DisposeSession(1)

SpecSession == InitSession /\ [][NextSession]_vars

\* session s has never had a wrapper built for it
NoBridgeOf(s) == \A b \in BridgeIds : bridges[b].owner # s

\* C23: dispose() on a session that never created a bridge only sets the
\* disposed flag and leaves every wrapper (socket, codec) untouched; a
\* dispose() on a disposed session changes nothing and ends no wrapper again.
C23_DisposeIdempotent ==
    [][\A s \in CallIds :
          sess'[s].disposeCalls > sess[s].disposeCalls =>
              /\ sess'[s].disposed
              /\ NoBridgeOf(s) =>
                    /\ bridges' = bridges
                    /\ sess'[s] = [sess[s] EXCEPT !.disposed = TRUE,
                                                  !.disposeCalls = @ + 1]
              /\ sess[s].disposed =>
                    /\ bridges' = bridges
                    /\ sess'[s] = [sess[s] EXCEPT !.disposeCalls = @ + 1]
      ]_vars

\* the session was disposed twice and its wrapper was ended once
C23_Witness ==
    /\ sess[1].disposed
    /\ sess[1].disposeCalls = 2
    /\ bridges[1].owner = 1
    /\ bridges[1].endCalls = 1
    /\ bridges[1].closed


\* ------------------------------------------------------------------------
\* C24: secrets in the log
\* ------------------------------------------------------------------------
\* C24: no line of the log holds the agent's connection token or the
\* session key of the handshake in full.
C24_NoSecretInLog ==
    \A e \in disc.log :
        /\ disc.kind = "agent" => disc.connectionToken \notin e.secrets
        /\ (disc.kind = "mosh" /\ disc.promise.state = "fulfilled")
              => disc.promise.value.key \notin e.secrets


\* ------------------------------------------------------------------------
\* C25: the ssh client of a resolve() call
\* ------------------------------------------------------------------------
FinishedPcs == {"returned", "failed"}

\* C25: when resolve() returns or fails, the ssh client it opened (or was
\* opening) has been ended; an ended client stays ended and no step of the
\* pipeline is started on it: the mosh-server command and the bootstrap
\* commands are issued on a client that is ready.
C25_ChannelClosedOnEveryPath ==
    [][\A c \in CallIds :
          /\ (calls[c].pc \notin FinishedPcs /\ calls'[c].pc \in FinishedPcs)
                => (calls[c].ssh \in {"connecting", "ready"} /\ calls'[c].ssh = "ended")
          /\ calls[c].ssh = "ended"
                => (calls'[c].ssh = "ended" /\ calls'[c].pc \in FinishedPcs)
          /\ (calls'[c].pc \in {"handshake"} \cup BootPcs /\ calls'[c].pc # calls[c].pc)
                => (calls[c].ssh = "ready" \/ calls[c].pc = "ssh") /\ calls'[c].ssh = "ready"
      ]_vars

\* one call failed and one returned with the agent's info; both ended
\* their ssh client
C25_Witness ==
    /\ calls[1].pc = "failed" /\ calls[1].err = "Error" /\ calls[1].ssh = "ended"
    /\ calls[2].pc = "returned" /\ calls[2].ssh = "ended"
    /\ sess[2].vsCodeServerInfo # NoAgent


\* ------------------------------------------------------------------------
\* parseAuthority, and the user default of resolve()
\* ------------------------------------------------------------------------
SshDefaultPort == 22
AuthPrefix == Tok("prefix", "mosh+", <<>>)
At == Tok("at", "@", <<>>)
Name(s) == Tok("name", s, <<>>)
\* user: string | undefined
Undefined == [defined |-> FALSE, s |-> ""]
Defined(s) == [defined |-> TRUE, s |-> s]
DefaultUsers == {"osuser"}

\* the pieces of an authority string, and the strings of the model (a run
\* of digits stays within the integers of the checker)
AuthToks ==
    {AuthPrefix, At, Colon, Name("alice"), Name("example.com"),
     DigitsTok(<<2, 2, 2, 2>>), DigitsTok(<<0>>)}
AuthTexts ==
    {text \in UNION {[1..n -> AuthToks] : n \in 0..MaxAuthToks} :
        Len(DigitsOf(text, 1, Len(text))) <= 9}

\* authority.replace(/^mosh\+/, '')
StripPrefix(text) ==
    IF text # <<>> /\ Head(text) = AuthPrefix THEN Tail(text) ELSE text

\* s.lastIndexOf(ch) for the one-character pieces; 0 when s has none
LastIndexOf(text, kind) ==
    LET is == {i \in 1..Len(text) : text[i].t = kind} IN
    IF is = {} THEN 0 ELSE CHOOSE i \in is : \A x \in is : x <= i

\* parseInt(s, 10) of the pieces from i on: the digits the string starts
\* with (<<>>: NaN)
LeadingDigits(text, i) == DigitsOf(text, i, RunEnd(text, i, {"digits"}))

\* parseAuthority without `|| 22`
parseAuthorityNoDefault(text) ==
    LET rest == StripPrefix(text)
        atIdx == LastIndexOf(rest, "at")
        hostWithPort == IF atIdx # 0 THEN SubSeq(rest, atIdx + 1, Len(rest)) ELSE rest
        colonIdx == LastIndexOf(hostWithPort, "colon")
    IN [user |-> IF atIdx # 0 THEN Defined(StrOf(rest, 1, atIdx - 1)) ELSE Undefined,
        host |-> IF colonIdx # 0
                 THEN StrOf(hostWithPort, 1, colonIdx - 1)
                 ELSE StrOf(hostWithPort, 1, Len(hostWithPort)),
        sshPort |-> IF colonIdx # 0
                    THEN ParseInt(LeadingDigits(hostWithPort, colonIdx + 1))
                    ELSE SshDefaultPort]

\* parseAuthority(authority)
parseAuthority(text) ==
    LET rest == StripPrefix(text)
        atIdx == LastIndexOf(rest, "at")
        hostWithPort == IF atIdx # 0 THEN SubSeq(rest, atIdx + 1, Len(rest)) ELSE rest
        colonIdx == LastIndexOf(hostWithPort, "colon")
        digits == LeadingDigits(hostWithPort, colonIdx + 1)
    IN [user |-> IF atIdx # 0 THEN Defined(StrOf(rest, 1, atIdx - 1)) ELSE Undefined,
        host |-> IF colonIdx # 0
                 THEN StrOf(hostWithPort, 1, colonIdx - 1)
                 ELSE StrOf(hostWithPort, 1, Len(hostWithPort)),
        sshPort |-> IF colonIdx # 0 /\ digits # <<>> /\ ParseInt(digits) # 0
                    THEN ParseInt(digits)
                    ELSE SshDefaultPort]

\* resolve(): const sshUser = user || config.defaultUser
SshUser(user, defaultUser) ==
    IF user.defined /\ user.s # "" THEN user.s ELSE defaultUser

InitAuth ==
    /\ sessions = [a \in Authorities |-> 0]
    /\ sess = [s \in CallIds |-> NoSession]
    /\ calls = [c \in CallIds |-> NoCall]
    /\ bridges = [b \in BridgeIds |-> NoBridge]
    /\ commit = TRUE
    /\ exec = NoExec
    /\ disc = NoDisc
    /\ probe = NoProbe
    /\ conn = NoConn
    /\ \E text \in AuthTexts, pre \in {<<>>, <<AuthPrefix>>} :
          parse = [fn |-> "authority", text |-> pre \o text, pc |-> "input",
                   result |-> NoHandshake]

\* resolve() parses its authority and applies the user default
ParseAuth(defaultUser) ==
    /\ parse.fn = "authority"
    /\ parse.pc = "input"
    /\ parse' = [parse EXCEPT
                    !.pc = "done",
                    !.result = [parsed |-> parseAuthority(parse.text),
                                sshUser |-> SshUser(parseAuthority(parse.text).user,
                                                    defaultUser),
                                defaultUser |-> defaultUser]]
    /\ UNCHANGED <<core, exec, disc, probe, more>>

NextAuth ==
    \/ \E u \in DefaultUsers : ParseAuth(u)

SpecAuth == InitAuth /\ [][NextAuth]_vars

\* ------------------------------------------------------------------------
\* C26: the parsed authority
\* ------------------------------------------------------------------------
AuthDone == parse.fn = "authority" /\ parse.pc = "done"
\* the authority after its prefix, the part after its last '@', and the
\* pieces after the last ':' of that part
AuthRest == IF parse.text # <<>> /\ parse.text[1] = AuthPrefix THEN Tail(parse.text) ELSE parse.text
HasAt == \E i \in 1..Len(AuthRest) : AuthRest[i] = At
HostPart ==
    IF HasAt
    THEN LET a == CHOOSE i \in 1..Len(AuthRest) :
                    AuthRest[i] = At /\ \A j \in (i + 1)..Len(AuthRest) : AuthRest[j] # At
         IN SubSeq(AuthRest, a + 1, Len(AuthRest))
    ELSE AuthRest
HasPort == \E i \in 1..Len(HostPart) : HostPart[i] = Colon
PortPart ==
    LET c == CHOOSE i \in 1..Len(HostPart) :
                HostPart[i] = Colon /\ \A j \in (i + 1)..Len(HostPart) : HostPart[j] # Colon
    IN SubSeq(HostPart, c + 1, Len(HostPart))
Numeric(text) == text # <<>> /\ \A i \in 1..Len(text) : text[i].t = "digits"
ValueOf(text) == ParseInt(DigitsOf(text, 1, Len(text)))
\* the digits a text starts with
Leading(text) ==
    LET n == CHOOSE k \in 0..Len(text) :
                /\ \A i \in 1..k : text[i].t = "digits"
                /\ k < Len(text) => text[k + 1].t # "digits"
    IN SubSeq(text, 1, n)

\* what C26 says of the user and of the prefix
AuthUserAndPrefix ==
    /\ ~HasAt => parse.result.parsed.user = Undefined
    /\ HasAt => parse.result.parsed.user =
                    Defined(StrOf(AuthRest, 1, Len(AuthRest) - Len(HostPart) - 1))
    /\ parse.result.parsed.host =
          IF HasPort
          THEN StrOf(HostPart, 1, Len(HostPart) - Len(PortPart) - 1)
          ELSE StrOf(HostPart, 1, Len(HostPart))
    /\ parse.result.parsed.user = Undefined => parse.result.sshUser = parse.result.defaultUser
    /\ (parse.result.parsed.user.defined /\ parse.result.parsed.user.s # "")
          => parse.result.sshUser = parse.result.parsed.user.s

C27_StepsSequential ==
    [][\A c \in CallIds :
          /\ (calls'[c].pc \in BootPcs /\ calls[c].pc \notin BootPcs)
                => /\ calls[c].pc = "handshake"
                   /\ calls'[c].pc = "detect"
                   /\ \E info \in HandshakeResults : HsMatch(c, info)
          /\ calls'[c].pc \in BootPcs => calls'[c].moshInfo \in HandshakeResults
          /\ (\E cause \in HandshakeFailures : HsFail(c, cause))
                => (calls'[c].pc = "failed" /\ ~sess'[c].made)
          /\ calls[c].pc \in FinishedPcs => calls'[c].pc = calls[c].pc
          /\ (sess'[c].made /\ ~sess[c].made)
                => /\ calls[c].pc \in (IF commit THEN BootPcs ELSE {"handshake"})
                   /\ calls'[c].pc \in FinishedPcs
          /\ calls'[c].pc \in InFlightPcs => ~sess'[c].made
      ]_vars

\* a call has failed before any bootstrap step (in its ssh connect or in
\* its handshake) and has no session, while another one, past its handshake,
\* is bootstrapping and has no session yet
C27_Witness ==
    /\ commit
    /\ calls[1].pc = "failed" /\ calls[1].err = "Error" /\ ~sess[1].made
    /\ calls[2].pc = "install" /\ calls[2].moshInfo.udpPort = 60001
    /\ ~sess[2].made

\* C29: setupVsCodeServer goes detect, check, install if absent, start:
\* the install follows exactly the checks that did not answer "exists"
\* (a failed check included), the start follows a check that answered
\* "exists" or an install that succeeded, and a failed detection or install
\* ends the sequence with no start.
C29_SetupOrder ==
    [][\A c \in CallIds :
          /\ (calls'[c].pc = "check" /\ calls[c].pc # "check")
                => (calls[c].pc = "detect" /\ DetectDone(c, TRUE))
          /\ (calls[c].pc = "check" /\ calls'[c].pc # "check")
                => IF CheckDone(c, "exists")
                   THEN calls'[c].pc = "start"
                   ELSE calls'[c].pc = "install"
                          /\ (CheckDone(c, "missing") \/ CheckDone(c, "failed"))
          /\ (calls'[c].pc = "install" /\ calls[c].pc # "install") => calls[c].pc = "check"
          /\ (calls'[c].pc = "start" /\ calls[c].pc # "start")
                => \/ calls[c].pc = "check" /\ CheckDone(c, "exists")
                   \/ calls[c].pc = "install" /\ InstallDone(c, TRUE)
          /\ (DetectDone(c, FALSE) \/ InstallDone(c, FALSE))
                => (calls'[c].pc \in FinishedPcs /\ sess'[c].vsCodeServerInfo = NoAgent)
          /\ calls[c].pc \in FinishedPcs => calls'[c].pc \notin BootPcs
      ]_vars

\* a call whose check failed has installed and is starting the agent
C29_Witness ==
    \E c \in CallIds : calls[c].pc = "start" /\ calls[c].checkErr


\* ------------------------------------------------------------------------
\* One resolve() call together with its handshake discovery
\* ------------------------------------------------------------------------
\* resolve() calls _startMoshServer on its ready ssh client
HsStart == calls[1].pc = "handshake" /\ \E lvl \in LogLevels : StartMoshServer(lvl)

\* `await this._startMoshServer(...)` continues with the result, or throws
HsResolved == disc.promise.state = "fulfilled" /\ HsMatch(1, disc.promise.value)
HsRejected == disc.promise.state = "rejected" /\ \E cause \in HandshakeFailures : HsFail(1, cause)

NextHandshake ==
    \/ \E a \in Authorities : ResolveStart(1, a, 0)
    \/ SshReady(1)
    \/ SshFail(1)
    \/ HsStart
    \/ DiscExecErr
    \/ DiscExecOk
    \/ \E chunk \in MoshChunks : DiscStdout(chunk)
    \/ \E chunk \in MoshChunks : DiscStderr(chunk)
    \/ \E code \in ExitCodes : DiscClose(code)
    \/ DiscTimeout
    \/ HsResolved
    \/ HsRejected

\* resolve() without a commit hash, its ssh client and its _startMoshServer
SpecHandshake == InitSession /\ [][NextHandshake]_vars

\* C28: a session enters the registry only in a step of a call whose ssh
\* client is ready and whose handshake discovery has resolved; it carries
\* the port and the key the discovery resolved with, the port is in
\* 1..65535 and the key has at least 22 characters of the base64 alphabet,
\* whatever mosh-server has written.
C28_RegisteredSessionValid ==
    [][\A a \in Authorities :
          /\ (sessions'[a] # 0 /\ sessions'[a] # sessions[a])
                => /\ calls[sessions'[a]].ssh = "ready"
                   /\ calls[sessions'[a]].pc = "handshake"
                   /\ disc.kind = "mosh"
                   /\ disc.promise.state = "fulfilled"
                   /\ sess'[sessions'[a]].udpPort = disc.promise.value.udpPort
                   /\ sess'[sessions'[a]].keyBase64 = disc.promise.value.key
                   /\ \E i \in 1..Len(disc.output) :
                         /\ disc.output[i] = Marker
                         /\ disc.output[i + 1] = DigitsTok(ToDigits(sess'[sessions'[a]].udpPort))
          /\ sessions'[a] # 0
                => /\ sess'[sessions'[a]].made
                   /\ ValidPort(sess'[sessions'[a]].udpPort)
                   /\ ValidKey(sess'[sessions'[a]].keyBase64)
      ]_vars

\* the session for port 60002 is registered; mosh-server went on writing a
\* handshake line with a port out of range
C28_Witness ==
    /\ sessions["mosh+u@h1"] = 1
    /\ sess[1].udpPort = 60002
    /\ sess[1].keyBase64 = "AAAAAAAAAAAAAAAAAAAAAA"
    /\ disc.output = <<Noise, CrLf>>
                        \o HandshakeLine(60002, "AAAAAAAAAAAAAAAAAAAAAA") \o <<CrLf>>
                        \o HandshakeLine(65536, "AAAAAAAAAAAAAAAAAAAAAA") \o <<CrLf>>


KeyPaths == {"custom", "id_ed25519", "id_ecdsa", "id_rsa"}
\* remoteMosh.identityFile: empty, a file of its own, or one of the default keys
IdentityFiles == {"", "custom", "id_rsa"}
\* a path: no such file, a file readFileSync throws on, a file it returns
FileStates == {"absent", "unreadable", "readable"}
\* process.env['SSH_AUTH_SOCK']: not in the environment, empty, a socket path
AgentSocks == {"undefined", "", "/tmp/agent.sock"}

\* the default keys with id_rsa tried before id_ecdsa
DefaultKeysRsaFirst == <<"id_ed25519", "id_rsa", "id_ecdsa">>

\* const defaultKeys = [...]
DefaultKeys == <<"id_ed25519", "id_ecdsa", "id_rsa">>

\* `if (fs.existsSync(p)) { try { privateKey = fs.readFileSync(p) } catch {} }`:
\* the key read from p (named after its file), "" when privateKey stays unset
ReadKey(files, p) == IF files[p] = "readable" THEN p ELSE ""

\* `for (const keyPath of defaultKeys)` from index i on: the first key read
RECURSIVE FirstKey(_, _, _)
FirstKey(files, keys, i) ==
    IF i > Len(keys)
    THEN ""
    ELSE IF ReadKey(files, keys[i]) # ""
         THEN ReadKey(files, keys[i])
         ELSE FirstKey(files, keys, i + 1)

\* the privateKey and agent fields of sshConfig when ssh.connect is called
SshConfigOf(identityFile, files, agentSock) ==
    LET fromIdentity == IF identityFile # "" /\ files[identityFile] # "absent"
                        THEN ReadKey(files, identityFile)
                        ELSE "" IN
    IF fromIdentity # ""
    THEN [privateKey |-> fromIdentity, agent |-> ""]
    ELSE IF agentSock \notin {"undefined", ""}
         THEN [privateKey |-> "", agent |-> agentSock]
         ELSE [privateKey |-> FirstKey(files, DefaultKeys, 1), agent |-> ""]

\* the machine _createSshClient runs on
InitKeys ==
    /\ sessions = [a \in Authorities |-> 0]
    /\ sess = [s \in CallIds |-> NoSession]
    /\ calls = [c \in CallIds |-> NoCall]
    /\ bridges = [b \in BridgeIds |-> NoBridge]
    /\ commit = TRUE
    /\ exec = NoExec
    /\ parse = NoParse
    /\ disc = NoDisc
    /\ probe = NoProbe
    /\ \E id \in IdentityFiles, files \in [KeyPaths -> FileStates], sock \in AgentSocks :
          conn = [NoConn EXCEPT !.identityFile = id, !.files = files, !.agentSock = sock]

\* the executor of _createSshClient's promise: the handlers are registered,
\* sshConfig is built and ssh.connect(sshConfig) is called
CreateSshClient ==
    LET cfg == SshConfigOf(conn.identityFile, conn.files, conn.agentSock) IN
    /\ conn.pc = "idle"
    /\ conn' = [conn EXCEPT !.pc = "connecting",
                            !.privateKey = cfg.privateKey,
                            !.agent = cfg.agent,
                            !.connects = @ + 1]
    /\ UNCHANGED <<core, exec, parse, disc, probe>>

NextKeys ==
    \/ CreateSshClient

SpecKeys == InitKeys /\ [][NextKeys]_vars

\* the configured identity file exists and can be read
IdentityUsable ==
    conn.identityFile # "" /\ conn.files[conn.identityFile] = "readable"

\* the environment names an agent socket
AgentPresent == conn.agentSock \notin {"undefined", ""}

\* C31: when ssh.connect is called, sshConfig holds the configured identity
\* file's key if that file exists and can be read; otherwise the agent socket
\* of the environment if one is set (a non-empty SSH_AUTH_SOCK); otherwise the
\* key of the first of id_ed25519, id_ecdsa, id_rsa that exists and can be
\* read; otherwise neither.  ssh.connect is called once in every case, and
\* never with both a private key and an agent.
C31_AuthMaterialPriority ==
    conn.pc = "connecting" =>
        /\ conn.connects = 1
        /\ ~(conn.privateKey # "" /\ conn.agent # "")
        /\ IdentityUsable
              => (conn.privateKey = conn.identityFile /\ conn.agent = "")
        /\ (~IdentityUsable /\ AgentPresent)
              => (conn.agent = conn.agentSock /\ conn.privateKey = "")
        /\ (~IdentityUsable /\ ~AgentPresent)
              => /\ conn.agent = ""
                 /\ conn.privateKey =
                       IF conn.files["id_ed25519"] = "readable" THEN "id_ed25519"
                       ELSE IF conn.files["id_ecdsa"] = "readable" THEN "id_ecdsa"
                       ELSE IF conn.files["id_rsa"] = "readable" THEN "id_rsa"
                       ELSE ""

\* C31 witness: the identity file exists but cannot be read, no agent is
\* set, id_ed25519 is missing, id_ecdsa and id_rsa can be read: the
\* connection is made with the key of id_ecdsa
C31_Witness ==
    /\ conn.pc = "connecting"
    /\ conn.identityFile = "custom"
    /\ conn.files["custom"] = "unreadable"
    /\ conn.agentSock = "undefined"
    /\ conn.files["id_ed25519"] = "absent"
    /\ conn.files["id_ecdsa"] = "readable"
    /\ conn.files["id_rsa"] = "readable"
    /\ conn.privateKey = "id_ecdsa"
    /\ conn.connects = 1


\* ------------------------------------------------------------------------
\* The connection factories across reconnects (resolve() without a commit
\* hash, _disposeAll, the factories and the wrappers they build)
\* ------------------------------------------------------------------------
NextFactory ==
    \/ \E c \in CallIds, a \in Authorities, n \in 0..MaxAttempt : ResolveStart(c, a, n)
    \/ \E c \in CallIds : SshReady(c)
    \/ \E c \in CallIds : SshFail(c)
    \/ \E c \in CallIds, info \in HandshakeResults : HsMatch(c, info)
    \/ DisposeAll
    \/ \E c \in CallIds : MakeConnection(c)
    \/ \E b \in 1..MaxBridges : ConnectOk(b)
    \/ \E b \in 1..MaxBridges : ConnectThrow(b)
    \/ \E b \in 1..MaxBridges : End(b)

SpecFactory == InitSession /\ [][NextFactory]_vars

\* a wrapper is constructed for session s in this step
BuildsFor(s) ==
    \E b \in BridgeIds :
        bridges[b].st = "none" /\ bridges'[b].st # "none" /\ bridges'[b].owner = s

\* C32: a session is disposed only by a resolve with attempt > 0 for its
\* authority or by _disposeAll, and stays disposed; from then on no step
\* constructs a wrapper (socket and codec handle) for it, and an invocation
\* of the factory that captured it fails with the disposed error and leaves
\* every wrapper as it was.
C32_NoReuseAfterDispose ==
    [][/\ \A s \in CallIds :
            /\ sess[s].disposed => (sess'[s].disposed /\ ~BuildsFor(s))
            /\ (~sess[s].disposed /\ sess'[s].disposed)
                  => \/ DisposeAll
                     \/ \E c \in CallIds, n \in 1..MaxAttempt :
                            ResolveStart(c, sess[s].auth, n)
       /\ \A c \in CallIds :
            /\ (MakeConnection(c) /\ sess[calls[c].finalSession].disposed)
                  => /\ calls'[c].factoryErr = DisposedError
                     /\ bridges' = bridges
            /\ calls'[c].factoryErr # "none"
                  => (calls'[c].pc = "returned" /\ sess'[calls'[c].finalSession].disposed)
      ]_vars

\* C32 witness: call 1's factory built a wrapper; a reconnect (call 2,
\* attempt 1, now in its handshake) disposed call 1's session, which ended
\* that wrapper; call 1's factory was invoked again and failed with the
\* disposed error, and the wrapper it had built is the only one of its session
C32_Witness ==
    /\ calls[1].pc = "returned"
    /\ calls[1].factoryErr = DisposedError
    /\ sess[1].disposed
    /\ calls[2].pc = "handshake"
    /\ calls[2].attempt = 1
    /\ calls[2].existing = 1
    /\ bridges[1].owner = 1
    /\ bridges[1].closed
    /\ \A b \in BridgeIds \ {1} : bridges[b].owner # 1


\* ------------------------------------------------------------------------
\* One resolve() call with the helpers it awaits: _startMoshServer, the
\* execRemote calls of the bootstrap helpers, startVsCodeServer.  The call
\* has one helper outstanding at a time.
\* ------------------------------------------------------------------------
ExecStages == {"detect", "check", "install"}

\* the command the helper of a bootstrap stage hands to execRemote
CommandOf(pc) ==
    CASE pc = "detect" -> "uname -m"
      [] pc = "check" -> "test -f server.sh"
      [] pc = "install" -> "install script"
      [] OTHER -> ""

\* the execRemote call of the current stage has settled
ExecSettled ==
    /\ calls[1].pc \in ExecStages
    /\ exec.command = CommandOf(calls[1].pc)
    /\ exec.promise.state # "pending"

\* detectArchitecture / checkVsCodeServerInstalled / installVsCodeServer
\* calls execRemote with its command
BootExec ==
    /\ calls[1].pc \in ExecStages
    /\ disc.pc = "idle"
    /\ ExecRemote(CommandOf(calls[1].pc))

\* resolve() calls _startMoshServer
MoshStart ==
    /\ calls[1].pc = "handshake"
    /\ StartMoshServer("info")

\* `await execRemote(...)` continues in detectArchitecture (which returns an
\* architecture for every output, and throws when execRemote rejected)
DetectReturned ==
    /\ calls[1].pc = "detect"
    /\ ExecSettled
    /\ DetectDone(1, exec.promise.state = "fulfilled")

\* ... in checkVsCodeServerInstalled
CheckReturned ==
    /\ calls[1].pc = "check"
    /\ ExecSettled
    /\ \E res \in CheckResults :
          /\ (res = "failed") <=> (exec.promise.state = "rejected")
          /\ CheckDone(1, res)

\* ... in installVsCodeServer
InstallReturned ==
    /\ calls[1].pc = "install"
    /\ ExecSettled
    /\ InstallDone(1, exec.promise.state = "fulfilled")

\* setupVsCodeServer calls startVsCodeServer
AgentStart ==
    /\ calls[1].pc = "start"
    /\ exec.pc = "idle"
    /\ StartVsCodeServer("tokA", "info")

\* `await startVsCodeServer(...)` continues with the agent's info, or throws
AgentReturned ==
    /\ calls[1].pc = "start"
    /\ disc.kind = "agent"
    /\ disc.promise.state # "pending"
    /\ StartDone(1, IF disc.promise.state = "fulfilled" THEN disc.promise.value ELSE NoAgent)

\* the closure of a helper call whose outcome resolve() has taken is
\* unreachable: it is dropped before the next helper is called
DropExec ==
    /\ exec.pc # "idle"
    /\ exec.command # CommandOf(calls[1].pc)
    /\ exec' = NoExec
    /\ UNCHANGED <<core, parse, disc, probe, more>>

DropDisc ==
    /\ disc.pc # "idle"
    /\ disc.kind = "mosh" => calls[1].pc # "handshake"
    /\ disc.kind = "agent" => calls[1].pc # "start"
    /\ disc' = NoDisc
    /\ UNCHANGED <<core, exec, parse, probe, more>>

NextTimeouts ==
    \/ ResolveStart(1, "mosh+u@h1", 0)
    \/ SshReady(1)
    \/ SshFail(1)
    \/ MoshStart
    \/ HsResolved
    \/ HsRejected
    \/ BootExec
    \/ DetectReturned
    \/ CheckReturned
    \/ InstallReturned
    \/ AgentStart
    \/ AgentReturned
    \/ DropExec
    \/ DropDisc
    \/ ExecCallbackErr
    \/ ExecCallbackOk
    \/ \E ch \in StdoutChunks : StdoutData(ch)
    \/ \E ch \in StderrChunks : StderrData(ch)
    \/ \E code \in ExitCodes : StreamClose(code)
    \/ ExecTimeout
    \/ DiscExecErr
    \/ DiscExecOk
    \/ \E chunk \in AgentChunks \cup MoshChunks : DiscStdout(chunk)
    \/ \E chunk \in AgentChunks \cup MoshChunks : DiscStderr(chunk)
    \/ \E code \in ExitCodes : DiscClose(code)
    \/ DiscTimeout

\* The timers fire when they stay armed, and a continuation runs once the
\* promise it awaits has settled.  Nothing is assumed about the remote
\* process: it may never write and never exit, and the exec callback may
\* never be called.
FairTimeouts ==
    /\ WF_vars(ExecTimeout)
    /\ WF_vars(DiscTimeout)
    /\ WF_vars(MoshStart)
    /\ WF_vars(HsResolved)
    /\ WF_vars(HsRejected)
    /\ WF_vars(BootExec)
    /\ WF_vars(DetectReturned)
    /\ WF_vars(CheckReturned)
    /\ WF_vars(InstallReturned)
    /\ WF_vars(AgentStart)
    /\ WF_vars(AgentReturned)
    /\ WF_vars(DropExec)
    /\ WF_vars(DropDisc)

SpecTimeouts == Init /\ [][NextTimeouts]_vars /\ FairTimeouts

\* C33: every execRemote call, every handshake discovery and every
\* agent-port discovery that has been started eventually settles its
\* promise, and a resolve() call whose ssh client became ready eventually
\* returns or fails.
C33_EveryWaitEnds ==
    /\ (exec.pc # "idle") ~> (exec.promise.state # "pending")
    /\ (disc.kind = "mosh") ~> (disc.promise.state # "pending")
    /\ (disc.kind = "agent") ~> (disc.promise.state # "pending")
    /\ (calls[1].pc \in {"handshake"} \cup BootPcs)
          ~> (calls[1].pc \in {"returned", "failed"})

\* C33 witness: the resolve() call has returned after the agent start timed
\* out: the stream was open, nothing had been written and the process had
\* not exited
C33_Witness ==
    /\ calls[1].pc = "returned"
    /\ disc.kind = "agent"
    /\ disc.pc = "stream"
    /\ disc.chunks = 0 /\ disc.errChunks = 0
    /\ disc.promise.state = "rejected"
    /\ disc.promise.value.kind = "timeout"
    /\ sess[1].vsCodeServerInfo = NoAgent


\* ------------------------------------------------------------------------
\* C34: the registry and the disposed sessions
\* ------------------------------------------------------------------------
\* the sessions the registry holds
Stored == {sessions[a] : a \in Authorities} \ {0}

\* C34: every session the registry holds has been constructed and is not
\* disposed, in every state that resolve() calls and _disposeAll calls lead
\* to; a _disposeAll disposes every session the registry held and leaves
\* the registry empty, and a _disposeAll on an empty registry changes nothing.
C34_RegistryHoldsNoDisposed ==
    [][/\ \A s \in Stored' : sess'[s].made /\ ~sess'[s].disposed
       /\ DisposeAll
             => /\ Stored # {}
                /\ Stored' = {}
                /\ \A s \in Stored : sess'[s].disposed /\ sess'[s].client = 0
                /\ \A s \in CallIds \ Stored : sess'[s] = sess[s]
      ]_vars

\* C34 witness: two resolve() calls had registered a session each, for
\* different authorities; _disposeAll disposed both (each once) and emptied
\* the registry
C34_Witness ==
    /\ Stored = {}
    /\ sess[1].disposed /\ sess[1].disposeCalls = 1
    /\ sess[2].disposed /\ sess[2].disposeCalls = 1
    /\ sess[1].auth # sess[2].auth
    /\ calls[1].pc = "returned"
    /\ calls[2].pc = "returned"


\* ------------------------------------------------------------------------
\* The output of one process arriving in pieces (no timeout, no exec error)
\* ------------------------------------------------------------------------
\* a stdout chunk arrives before the stream closes
SplitData(chunk) ==
    /\ disc.pc = "stream"
    /\ DiscStdout(chunk)

NextSplit ==
    \/ StartVsCodeServer("tokA", "info")
    \/ StartMoshServer("info")
    \/ DiscExecOk
    \/ \E chunk \in AgentPieces \cup MoshPieces : SplitData(chunk)
    \/ \E code \in ExitCodes : DiscClose(code)

SpecSplit == Init /\ [][NextSplit]_vars

\* C35 (as stated): when the stream has closed, the operation has resolved
\* with what its parser returns on the whole output (agent: the port of
\* parseVsCodeServerPort, handshake: the port and key of parseMoshConnect),
\* however the output was cut into data events; and it has failed when the
\* parser finds nothing in the whole output.
C35_SplitIndependent ==
    disc.pc = "closed" =>
        LET whole == Find(disc, disc.output) IN
        IF whole = NoFind
        THEN disc.promise.state = "rejected"
        ELSE disc.promise = [state |-> "fulfilled", value |-> whole]


\* ------------------------------------------------------------------------
\* C36: dispose() and a makeConnection() that is still connecting
\* ------------------------------------------------------------------------
\* C36 (as stated): once dispose() has run on a session, none of the
\* wrappers built for it is alive: a wrapper whose connect completes after
\* the dispose() is torn down, not handed to the factory's caller as a live
\* wrapper, and not stored in the session.
C36_NoBridgeAliveAfterDispose ==
    \A s \in CallIds :
        sess[s].disposed =>
            /\ sess[s].client = 0
            /\ \A b \in BridgeIds : bridges[b].owner = s => ~Alive(b)


\* ------------------------------------------------------------------------
\* MoshMessagePassing: the channel object makeConnection() hands out
\* ------------------------------------------------------------------------
\* Its three handlers run synchronously inside the wrapper's emit() and
\* nothing else writes its state, so its state is a function of the events
\* the wrapper has emitted since it was constructed.

\* a vscode.EventEmitter with the subscriber's listener registered:
\* listeners counts the registered listeners, disposeCalls the dispose() calls
NewEmitter == [listeners |-> 1, disposeCalls |-> 0]

\* the object after its constructor; delivered holds what its subscribers
\* have been called with
NewChannel ==
    [disposed |-> FALSE,
     onDidReceiveMessage |-> NewEmitter, onDidClose |-> NewEmitter, onDidEnd |-> NewEmitter,
     delivered |-> <<>>]

\* EventEmitter.dispose: the listeners are dropped
DisposeEmitter(em) == [listeners |-> 0, disposeCalls |-> em.disposeCalls + 1]

\* EventEmitter.fire(arg) of the emitter `name`: every listener is called
Fire(m, name, arg) ==
    IF m[name].listeners > 0
    THEN [m EXCEPT !.delivered = Append(@, [event |-> name, arg |-> arg])]
    ELSE m

\* _disposeEmitters without its `if (this._disposed) return` guard
DisposeEmittersNoGuard(m) ==
    [m EXCEPT !.disposed = TRUE,
              !.onDidReceiveMessage = DisposeEmitter(@),
              !.onDidClose = DisposeEmitter(@),
              !.onDidEnd = DisposeEmitter(@)]

\* MoshMessagePassing._disposeEmitters
DisposeEmitters(m) ==
    IF m.disposed
    THEN m
    ELSE [m EXCEPT !.disposed = TRUE,
                   !.onDidReceiveMessage = DisposeEmitter(@),
                   !.onDidClose = DisposeEmitter(@),
                   !.onDidEnd = DisposeEmitter(@)]

\* the listeners the constructor registers with client.on('data' | 'close' | 'end')
OnClientEvent(m, e) ==
    CASE e.type = "data" -> Fire(m, "onDidReceiveMessage", e.arg)
      [] e.type = "close" -> DisposeEmitters(Fire(m, "onDidClose", e.arg))
      [] e.type = "end" -> DisposeEmitters(Fire(m, "onDidEnd", e.arg))

\* the channel object after the wrapper has emitted events
RECURSIVE Relay(_)
Relay(events) ==
    IF events = <<>>
    THEN NewChannel
    ELSE OnClientEvent(Relay(SubSeq(events, 1, Len(events) - 1)), events[Len(events)])

TerminalDeliveries(m) ==
    {i \in 1..Len(m.delivered) : m.delivered[i].event \in {"onDidClose", "onDidEnd"}}

\* C37: whatever end, close and data events the wrapper emits and in
\* whatever order, the subscribers of its MoshMessagePassing get at most one
\* terminal event (closed or ended) and no received-message event after it;
\* once the wrapper has emitted a terminal event, dispose() has been called
\* exactly once on each of the three emitters, and before that on none.
C37_ChannelOneTerminalEvent ==
    \A b \in BridgeIds :
        bridges[b].st = "live" =>
            LET m == Relay(bridges[b].events)
                ems == <<m.onDidReceiveMessage, m.onDidClose, m.onDidEnd>> IN
            /\ Cardinality(TerminalDeliveries(m)) <= 1
            /\ \A i \in TerminalDeliveries(m) : i = Len(m.delivered)
            /\ IF EventsOf(b, {"end", "close"}) # {}
               THEN /\ Cardinality(TerminalDeliveries(m)) = 1
                    /\ \A k \in 1..3 : ems[k].disposeCalls = 1 /\ ems[k].listeners = 0
               ELSE \A k \in 1..3 : ems[k].disposeCalls = 0 /\ ems[k].listeners = 1

\* C37 witness: the wrapper emitted data, then end, then close (a socket
\* error after end()); the subscribers got the message and the end only
C37_Witness ==
    /\ bridges[0].st = "live"
    /\ Len(bridges[0].events) = 3
    /\ bridges[0].events[1].type = "data"
    /\ bridges[0].events[2].type = "end"
    /\ bridges[0].events[3].type = "close"
    /\ Len(Relay(bridges[0].events).delivered) = 2
    /\ Relay(bridges[0].events).delivered[2].event = "onDidEnd"
    /\ Relay(bridges[0].events).onDidClose.disposeCalls = 1


\* ------------------------------------------------------------------------
\* Two resolve() calls for one authority
\* ------------------------------------------------------------------------
\* Between this._sessions.set (Step 4) and this._sessions.get (after
\* `await vscode.window.withProgress`) a call passes only promise
\* continuations of its own; another call resumes from an I/O or timer
\* callback of its own ssh client, which runs after them.  Register is that
\* whole stretch: the read sees the registry this call has just written.

\* C38: a resolve() call that returns has captured the MoshSession it
\* constructed itself, holding the port and key of its own handshake, also
\* when another call for the same authority is in flight; and every bridge
\* its factory starts belongs to that session.
C38_FactoryUsesOwnSession ==
    [][/\ \A c \in CallIds, info \in HandshakeResults :
            HsMatch(c, info) =>
                /\ calls'[c].pc = "returned"
                /\ calls'[c].finalSession = c
                /\ sess'[c].made /\ ~sess'[c].disposed
                /\ sess'[c].auth = calls[c].auth
                /\ sess'[c].udpPort = info.udpPort
                /\ sess'[c].keyBase64 = info.key
                /\ \A o \in CallIds \ {c} : sess'[o] = sess[o]
       /\ \A c \in CallIds :
            MakeConnection(c) =>
                \A b \in 1..MaxBridges :
                    bridges'[b] # bridges[b] =>
                        /\ bridges'[b].owner = c
                        /\ sess[c].made]_vars

\* C38 witness: call 2 (a reconnect that found nothing stored, so call 1 had
\* not registered when it started) is still in its handshake for the
\* authority of call 1, which has meanwhile returned and whose factory has
\* built a bridge of session 1
C38_Witness ==
    /\ calls[1].pc = "returned"
    /\ calls[1].finalSession = 1
    /\ ~sess[1].disposed
    /\ calls[2].pc = "handshake"
    /\ calls[2].auth = sess[1].auth
    /\ calls[2].attempt > 0
    /\ calls[2].existing = 0
    /\ sessions[sess[1].auth] = 1
    /\ bridges[1].owner = 1
    /\ bridges[1].st = "live"

====
